---- MODULE Spec2Model ----
(***************************************************************************)
(* A model of the streaming quality-control engine of preqc-pack           *)
(* (src/src/qc/fastqc.rs): QualityCount, BaseGroup, PhredEncoding, the     *)
(* per-metric accumulators and the FastQC aggregator with its              *)
(* process_sequence / finish / merge operations.                           *)
(*                                                                         *)
(* A Rust panic is modelled by the variable fault: an operation that       *)
(* panics leaves the state as it was at the panicking statement and sets   *)
(* fault to the name of the panic; nothing runs after a panic.             *)
(***************************************************************************)
EXTENDS Integers, Sequences, FiniteSets, TLC

VARIABLES
    fastqc,         \* aggregator name -> FastQC value
    fed,            \* history: aggregator name -> the reads process_sequence was given
    merged,         \* history: aggregator name -> the reads merge took over from siblings
    calls,          \* history: number of process_sequence calls made so far
    merges,         \* history: number of merge calls made so far
    fault,          \* "none", or the panic that stopped the program
    quality_count,  \* two stand-alone QualityCount values
    max_length,     \* argument of BaseGroup::make_base_groups
    groups,         \* its result
    acscii_num,     \* argument of PhredEncoding::get_fastq_encoding_offset
    encoding,       \* its result
    pc,             \* "start" before a pure function is applied, "done" after
    over,           \* a stand-alone OverRepresentedSeqs
    contaminant,    \* a Contaminant
    query,          \* argument of Contaminant::find_match
    hit,            \* its result
    gc_len,         \* argument of GCModel::new_by_len
    gc_model,       \* its result
    tile_score,     \* a stand-alone PerTileQualityScore
    kmer_content,   \* a stand-alone KmerContent
    seq_len_distribution,  \* a stand-alone SeqLenDistribution
    locals,         \* the local variables of SeqLenDistribution::calculate_distribution
    per_seq_quality_score, \* a stand-alone PerSeqQualityScore
    duplication_level,     \* a SeqDuplicationLevel whose overrepresented_module is over
    finder,         \* a ContaminentFinder
    sub_offset      \* argument offset of Contaminant::sub_find_match

\* the stand-alone values of the accumulator-level specifications
unitVars == <<over, contaminant, query, hit, gc_len, gc_model, tile_score>>

\* the stand-alone values of the report-level specifications
reportVars == <<kmer_content, seq_len_distribution, locals, per_seq_quality_score,
                duplication_level, finder, sub_offset>>

\* the aggregators and their history
aggVars == <<fastqc, fed, merged, calls, merges>>

\* the stand-alone values of the QualityCount, BaseGroup and PhredEncoding specifications
pureVars == <<quality_count, max_length, groups, acscii_num, encoding>>

vars == <<fastqc, fed, merged, calls, merges, fault, quality_count, max_length, groups,
          acscii_num, encoding, pc, unitVars, reportVars>>

-----------------------------------------------------------------------------
(* Program constants *)

SANGER_ENCODING_OFFSET == 32
ILLUMINA_1_3_ENCODING_OFFSET == 64
SANGER_ILLUMINA_1_9 == "Sanger / Illumina 1.9"
ILLUMINA_1_3 == "Illumina 1.3"
ILLUMINA_1_5 == "Illumina 1.5"
FASTQC_CONFIG_DUP_LENGTH == 0
FASTQC_CONFIG_KMER_SIZE == 0
INDICATOR_CONFIG_TILE_IGNORE == 0

\* vec![0; 150] in QualityCount::new
ACTUAL_COUNTS_LEN == 150

-----------------------------------------------------------------------------
(* Bounds *)

\* largest total_counts of a stand-alone QualityCount
MaxCount == 3
\* largest max_length handed to make_base_groups
MaxBaseLen == 1310
\* largest character code handed to get_fastq_encoding_offset
MaxAscii == 130
\* process_sequence calls in one run, over all aggregators
MaxCalls == 2
\* merge calls in one run
MaxMerges == 1
\* the largest value of the field OBSERVATION_CUTOFF of a stand-alone OverRepresentedSeqs
MaxCutoff == 2
\* reads given to a stand-alone OverRepresentedSeqs
MaxOverReads == 4
\* the longest read length a stand-alone GCModel is built for
MaxGCLen == 100
\* a stand-alone PerTileQualityScore starts new, or after the reads of tiles
\* 1..k for a k in (MaxPreloaded - PreloadSpan)..MaxPreloaded
MaxPreloaded == 1000
PreloadSpan == 30
\* reads given to a stand-alone PerTileQualityScore after that
MaxTileReads == 3
\* the largest tile number a header carries
MaxTileNumber == MaxPreloaded + MaxTileReads

-----------------------------------------------------------------------------
(* Generic helpers *)

Ok(v) == [panic |-> "none", v |-> v]
Panic(what, v) == [panic |-> what, v |-> v]

\* x - y on usize: a panic in a debug build when it overflows, wrapping in release
usize_sub(x, y, build) ==
    IF x - y < 0 /\ build = "debug"
    THEN Panic("attempt to subtract with overflow", 0)
    ELSE Ok(x - y)

\* x < y on usize
usize_less(x, y) == IF (x >= 0) = (y >= 0) THEN x < y ELSE x >= 0

-----------------------------------------------------------------------------
(* QualityCount *)

QualityCount_new ==
    [actual_counts |-> [i \in 0..(ACTUAL_COUNTS_LEN - 1) |-> 0], total_counts |-> 0]

add_value(q, c_ascii) ==
    LET q1 == [q EXCEPT !.total_counts = @ + 1]
    IN  IF c_ascii >= ACTUAL_COUNTS_LEN
        THEN Panic("index out of bounds", q1)
        ELSE Ok([q1 EXCEPT !.actual_counts[c_ascii] = @ + 1])

\* add_quality_count with the line "self.total_counts += ..." left out
add_quality_count_keeps_total(q, quality_count_arg) ==
    [total_counts  |-> q.total_counts,
     actual_counts |-> [i \in 0..(ACTUAL_COUNTS_LEN - 1) |->
                          q.actual_counts[i] + quality_count_arg.actual_counts[i]]]

add_quality_count(q, quality_count_arg) ==
    [total_counts  |-> q.total_counts + quality_count_arg.total_counts,
     actual_counts |-> [i \in 0..(ACTUAL_COUNTS_LEN - 1) |->
                          q.actual_counts[i] + quality_count_arg.actual_counts[i]]]

total_counts(q) == q.total_counts

\* the indices i in offset..len-1 with a non-zero count: the only iterations of
\* the scans below that change their running sums
NonZero(q, offset) ==
    {i \in offset..(ACTUAL_COUNTS_LEN - 1) : q.actual_counts[i] > 0}

RECURSIVE SumCounts(_, _)
\* sum of actual_counts[i] over the indices in S
SumCounts(q, S) ==
    IF S = {} THEN 0
    ELSE LET i == CHOOSE x \in S : TRUE
         IN  q.actual_counts[i] + SumCounts(q, S \ {i})

RECURSIVE SumWeighted(_, _, _)
\* sum of actual_counts[i] * (i - offset) over the indices in S
SumWeighted(q, offset, S) ==
    IF S = {} THEN 0
    ELSE LET i == CHOOSE x \in S : TRUE
         IN  q.actual_counts[i] * (i - offset) + SumWeighted(q, offset, S \ {i})

\* (total / count) as f32: an integer division, which panics when count = 0
QualityCount_get_mean(q, offset) ==
    LET total == SumWeighted(q, offset, NonZero(q, offset))
        count == SumCounts(q, NonZero(q, offset))
    IN  IF count = 0 THEN Panic("attempt to divide by zero", 0)
        ELSE Ok(total \div count)

\* the scan "count += actual_counts[i]; if count >= total { return i - offset }"
\* from i = offset: it returns at the first index where the running count has
\* reached total, which is offset itself or an index with a non-zero count
QualityCount_get_percentile(q, offset, percentile) ==
    LET total == (q.total_counts * percentile) \div 100
        stops == IF offset < ACTUAL_COUNTS_LEN THEN {offset} \cup NonZero(q, offset) ELSE {}
        hits == {i \in stops : SumCounts(q, {j \in NonZero(q, offset) : j <= i}) >= total}
    IN  IF hits = {} THEN 0
        ELSE (CHOOSE i \in hits : \A j \in hits : i <= j) - offset

-----------------------------------------------------------------------------
(* BaseGroup *)

BaseGroup_new(lower_count, upper_count) ==
    [name |-> IF lower_count = upper_count
              THEN ToString(lower_count)
              ELSE ToString(lower_count) \o "-" \o ToString(upper_count),
     lower_count |-> lower_count,
     upper_count |-> upper_count]

\* one pass of "while starting_base <= maxlen" in make_ungrouped_groups; st holds
\* starting_base and the groups pushed so far
ungrouped_body(st, maxlen) ==
    IF st.starting_base <= maxlen
    THEN LET interval == 1
             end0 == st.starting_base + (interval - 1)
             end_base == IF end0 > maxlen THEN maxlen ELSE end0
         IN  [starting_base |-> st.starting_base + interval,
              gs |-> Append(st.gs, BaseGroup_new(st.starting_base, end_base))]
    ELSE st

RECURSIVE ungrouped_passes(_, _, _)
\* st after the loop has run to its end or for n passes, whichever comes first
ungrouped_passes(st, maxlen, n) ==
    IF n <= 1 THEN ungrouped_body(st, maxlen)
    ELSE LET half == ungrouped_passes(st, maxlen, n \div 2)
         IN  IF half.starting_base > maxlen THEN half
             ELSE ungrouped_passes(half, maxlen, n - n \div 2)

\* the loop needs at most maxlen passes: every pass moves starting_base up
ungrouped_loop(starting_base, maxlen, gs) ==
    ungrouped_passes([starting_base |-> starting_base, gs |-> gs], maxlen, maxlen).gs

make_ungrouped_groups(maxlen) == ungrouped_loop(1, maxlen, <<>>)

base_values == <<2, 5, 10>>

linear_group_count(length, interval) ==
    9 + (length - 9) \div interval
      + (IF (length - 9) % interval /= 0 THEN 1 ELSE 0)

RECURSIVE linear_interval_loop(_, _)
\* 0 stands for the panic "Couldn't find a sensible interval grouping"
linear_interval_loop(length, multiplier) ==
    LET fits == {i \in 1..Len(base_values) :
                    linear_group_count(length, base_values[i] * multiplier) < 75}
    IN  IF fits /= {}
        THEN base_values[CHOOSE i \in fits : \A j \in fits : i <= j] * multiplier
        ELSE IF multiplier * 10 = 10000000 THEN 0
        ELSE linear_interval_loop(length, multiplier * 10)

get_linear_interval(length) == linear_interval_loop(length, 1)

\* the loop body of make_linear_base_groups without the branch that restarts the
\* bins at the interval boundary ("else if starting_base == 10 && interval > 10")
linear_groups_body_gap(st, maxlen, interval) ==
    IF st.starting_base <= maxlen
    THEN LET starting_base == st.starting_base
             e0 == starting_base + (interval - 1)
             e1 == IF starting_base < 10 THEN starting_base ELSE e0
             e2 == IF starting_base = 10 /\ interval > 10 THEN interval - 1 ELSE e1
             end_base == IF e2 > maxlen THEN maxlen ELSE e2
             next == IF starting_base < 10 THEN starting_base + 1
                     ELSE starting_base + interval
         IN  [starting_base |-> next,
              gs |-> Append(st.gs, BaseGroup_new(starting_base, end_base))]
    ELSE st

\* one pass of "while starting_base <= maxlen" in make_linear_base_groups; st
\* holds starting_base and the groups pushed so far
linear_groups_body(st, maxlen, interval) ==
    IF st.starting_base <= maxlen
    THEN LET starting_base == st.starting_base
             e0 == starting_base + (interval - 1)
             e1 == IF starting_base < 10 THEN starting_base ELSE e0
             e2 == IF starting_base = 10 /\ interval > 10 THEN interval - 1 ELSE e1
             end_base == IF e2 > maxlen THEN maxlen ELSE e2
             next == IF starting_base < 10 THEN starting_base + 1
                     ELSE IF starting_base = 10 /\ interval > 10 THEN interval
                     ELSE starting_base + interval
         IN  [starting_base |-> next,
              gs |-> Append(st.gs, BaseGroup_new(starting_base, end_base))]
    ELSE st

RECURSIVE linear_groups_passes(_, _, _, _)
\* st after the loop has run to its end or for n passes, whichever comes first
linear_groups_passes(st, maxlen, interval, n) ==
    IF n <= 1 THEN linear_groups_body(st, maxlen, interval)
    ELSE LET half == linear_groups_passes(st, maxlen, interval, n \div 2)
         IN  IF half.starting_base > maxlen THEN half
             ELSE linear_groups_passes(half, maxlen, interval, n - n \div 2)

\* the loop needs at most maxlen passes: every pass moves starting_base up
linear_groups_loop(starting_base, maxlen, interval, gs) ==
    linear_groups_passes([starting_base |-> starting_base, gs |-> gs],
                         maxlen, interval, maxlen).gs

make_linear_base_groups(maxlen) ==
    IF maxlen <= 75
    THEN Ok(make_ungrouped_groups(maxlen))
    ELSE LET interval == get_linear_interval(maxlen)
         IN  IF interval = 0
             THEN Panic("Couldn't find a sensible interval grouping", <<>>)
             ELSE Ok(linear_groups_loop(1, maxlen, interval, <<>>))

make_base_groups(maxlen) == make_linear_base_groups(maxlen)

-----------------------------------------------------------------------------
(* PhredEncoding *)

PhredEncoding_new(name, offset) == [name |-> name, offset |-> offset]

\* get_fastq_encoding_offset with the Illumina 1.3 marker taken to be the offset
\* itself ("== ILLUMINA_1_3_ENCODING_OFFSET", the "+ 1" forgotten)
get_fastq_encoding_offset_marker(n) ==
    IF n < 33
    THEN Panic("No known encodings with chars < 33", PhredEncoding_new("", 0))
    ELSE IF n < 64
    THEN Ok(PhredEncoding_new(SANGER_ILLUMINA_1_9, SANGER_ENCODING_OFFSET))
    ELSE IF n = ILLUMINA_1_3_ENCODING_OFFSET
    THEN Ok(PhredEncoding_new(ILLUMINA_1_3, ILLUMINA_1_3_ENCODING_OFFSET))
    ELSE IF n <= 126
    THEN Ok(PhredEncoding_new(ILLUMINA_1_5, ILLUMINA_1_3_ENCODING_OFFSET))
    ELSE Panic("No Known encodings with chars > 126", PhredEncoding_new("", 0))

get_fastq_encoding_offset(n) ==
    IF n < 33
    THEN Panic("No known encodings with chars < 33", PhredEncoding_new("", 0))
    ELSE IF n < 64
    THEN Ok(PhredEncoding_new(SANGER_ILLUMINA_1_9, SANGER_ENCODING_OFFSET))
    ELSE IF n = ILLUMINA_1_3_ENCODING_OFFSET + 1
    THEN Ok(PhredEncoding_new(ILLUMINA_1_3, ILLUMINA_1_3_ENCODING_OFFSET))
    ELSE IF n <= 126
    THEN Ok(PhredEncoding_new(ILLUMINA_1_5, ILLUMINA_1_3_ENCODING_OFFSET))
    ELSE Panic("No Known encodings with chars > 126", PhredEncoding_new("", 0))

-----------------------------------------------------------------------------
(* Numbers of type f32 are kept as exact fractions <<numerator, denominator>>; *)
(* <<0, 0>> is NaN (0.0 / 0.0).                                                *)

RECURSIVE GCD(_, _)
GCD(a, b) == IF b = 0 THEN a ELSE GCD(b, a % b)

Rat(n, d) ==
    IF d = 0 THEN <<0, 0>>
    ELSE IF n = 0 THEN <<0, 1>>
    ELSE LET g == GCD(n, d) IN <<n \div g, d \div g>>

RatAdd(x, y) == Rat(x[1] * y[2] + y[1] * x[2], x[2] * y[2])

RatMul(x, y) == Rat(x[1] * y[1], x[2] * y[2])

RatDiv(x, y) == Rat(x[1] * y[2], x[2] * y[1])

\* x < y for two fractions with positive denominators
RatLess(x, y) == x[1] * y[2] < y[1] * x[2]

Zero == <<0, 1>>

-----------------------------------------------------------------------------
(* Records (fastq::OwnedRecord).  head is the header already split on ':',  *)
(* seq a sequence of one-character strings, qual a sequence of byte values. *)

\* str::parse::<usize>() on a header field: the number whose decimal form the
\* field is, for the numbers a header carries here; -1 stands for Err
ParseUsize(s) ==
    IF \E n \in 0..MaxTileNumber : ToString(n) = s
    THEN CHOOSE n \in 0..MaxTileNumber : ToString(n) = s
    ELSE -1

Read1 == [head |-> <<"some_name">>, seq |-> <<"A">>, qual |-> <<73>>]
Read2 == [head |-> <<"M", "1", "F", "1", "7">>, seq |-> <<"G", "N">>, qual |-> <<53, 53>>]
Read3 == [head |-> <<"M", "1", "F", "1", "8">>, seq |-> <<"C", "t">>, qual |-> <<65, 73>>]

\* a read whose tile field is not a number
Read4 == [head |-> <<"M", "1", "F", "1", "x">>, seq |-> <<"T">>, qual |-> <<73>>]

Reads == {Read1, Read2, Read3}

Aggs == {"A", "B", "C"}

\* the two ways the crate is built: overflow checks on (debug) or off (release)
Builds == {"debug", "release"}

-----------------------------------------------------------------------------
(* PerBaseSeqQuality *)

PerBaseSeqQuality_new ==
    [quality_counts |-> <<>>, base_pos |-> <<>>, mean |-> <<>>, median |-> <<>>,
     lower_quartile |-> <<>>, upper_quartile |-> <<>>, lowest |-> <<>>,
     highest |-> <<>>, xlabels |-> <<>>]

RECURSIVE add_quality_counts_loop(_, _, _)
add_quality_counts_loop(self, quality_counts, i) ==
    IF i >= Len(self.quality_counts) THEN Ok(self)
    ELSE IF i >= Len(quality_counts) THEN Panic("index out of bounds", self)
    ELSE add_quality_counts_loop(
            [self EXCEPT !.quality_counts[i + 1] =
                            add_quality_count(@, quality_counts[i + 1])],
            quality_counts, i + 1)

add_quality_counts(self, quality_counts) ==
    add_quality_counts_loop(self, quality_counts, 0)

RECURSIVE process_qual_loop(_, _, _)
process_qual_loop(self, qual, i) ==
    IF i >= Len(qual) THEN Ok(self)
    ELSE LET r == add_value(self.quality_counts[i + 1], qual[i + 1])
             s1 == [self EXCEPT !.quality_counts[i + 1] = r.v]
         IN  IF r.panic /= "none" THEN Panic(r.panic, s1)
             ELSE process_qual_loop(s1, qual, i + 1)

process_qual(self, qual) ==
    LET quality_counts_len == Len(self.quality_counts)
        qual_len == Len(qual)
        grown == IF quality_counts_len < qual_len
                 THEN self.quality_counts \o
                        [k \in 1..(qual_len - quality_counts_len) |-> QualityCount_new]
                 ELSE self.quality_counts
    IN  process_qual_loop([self EXCEPT !.quality_counts = grown], qual, 0)

RECURSIVE PerBaseSeqQuality_get_percentile_loop(_, _, _, _, _, _, _)
PerBaseSeqQuality_get_percentile_loop(self, i, maxbp, offset, percentile, count, total) ==
    IF i >= maxbp THEN <<total, count>>
    ELSE IF total_counts(self.quality_counts[i + 1]) > 100
    THEN PerBaseSeqQuality_get_percentile_loop(self, i + 1, maxbp, offset, percentile,
            count + 1,
            total + QualityCount_get_percentile(self.quality_counts[i + 1], offset, percentile))
    ELSE PerBaseSeqQuality_get_percentile_loop(self, i + 1, maxbp, offset, percentile,
            count, total)

PerBaseSeqQuality_get_percentile(self, minbp, maxbp, offset, percentile) ==
    LET tc == PerBaseSeqQuality_get_percentile_loop(self, minbp - 1, maxbp, offset,
                                                    percentile, 0, 0)
    IN  IF tc[2] > 0 THEN Rat(tc[1], tc[2]) ELSE Zero

RECURSIVE PerBaseSeqQuality_get_mean_loop(_, _, _, _, _, _)
PerBaseSeqQuality_get_mean_loop(self, i, maxbp, offset, count, total) ==
    IF i >= maxbp THEN Ok(<<total, count>>)
    ELSE IF total_counts(self.quality_counts[i + 1]) > 0
    THEN LET m == QualityCount_get_mean(self.quality_counts[i + 1], offset)
         IN  IF m.panic /= "none" THEN Panic(m.panic, <<total, count>>)
             ELSE PerBaseSeqQuality_get_mean_loop(self, i + 1, maxbp, offset,
                                                  count + 1, total + m.v)
    ELSE PerBaseSeqQuality_get_mean_loop(self, i + 1, maxbp, offset, count, total)

PerBaseSeqQuality_get_mean(self, minbp, maxbp, offset) ==
    LET r == PerBaseSeqQuality_get_mean_loop(self, minbp - 1, maxbp, offset, 0, 0)
    IN  IF r.panic /= "none" THEN Panic(r.panic, Zero)
        ELSE IF r.v[2] > 0 THEN Ok(Rat(r.v[1], r.v[2]))
        ELSE Ok(Zero)

RECURSIVE get_percentages_loop(_, _, _, _)
get_percentages_loop(self, gs, offset, i) ==
    IF i > Len(gs) THEN Ok(self)
    ELSE LET min_base == gs[i].lower_count
             max_base == gs[i].upper_count
             s1 == [self EXCEPT
                      !.xlabels[i] = gs[i].name,
                      !.lowest[i] = PerBaseSeqQuality_get_percentile(self, min_base, max_base, offset, 10),
                      !.highest[i] = PerBaseSeqQuality_get_percentile(self, min_base, max_base, offset, 90)]
             m == PerBaseSeqQuality_get_mean(self, min_base, max_base, offset)
         IN  IF m.panic /= "none" THEN Panic(m.panic, s1)
             ELSE get_percentages_loop(
                    [s1 EXCEPT
                       !.mean[i] = m.v,
                       !.median[i] = PerBaseSeqQuality_get_percentile(self, min_base, max_base, offset, 50),
                       !.lower_quartile[i] = PerBaseSeqQuality_get_percentile(self, min_base, max_base, offset, 25),
                       !.upper_quartile[i] = PerBaseSeqQuality_get_percentile(self, min_base, max_base, offset, 75)],
                    gs, offset, i + 1)

PerBaseSeqQuality_get_percentages(self, offset) ==
    LET g == make_base_groups(Len(self.quality_counts))
        length == Len(g.v)
        zeros == [k \in 1..length |-> Zero]
    IN  IF g.panic /= "none" THEN Panic(g.panic, self)
        ELSE get_percentages_loop(
                [self EXCEPT !.base_pos = [k \in 1..length |-> k],
                             !.mean = zeros, !.median = zeros,
                             !.lowest = zeros, !.highest = zeros,
                             !.lower_quartile = zeros, !.upper_quartile = zeros,
                             !.xlabels = [k \in 1..length |-> ""]],
                g.v, offset, 1)

-----------------------------------------------------------------------------
(* BasicStats *)

BasicStats_new ==
    [name |-> "", total_reads |-> 0, total_bases |-> 0,
     t_count |-> 0, c_count |-> 0, g_count |-> 0, a_count |-> 0, n_count |-> 0,
     gc_percentage |-> Zero, lowest_char |-> 126, highest_char |-> 0,
     file_type |-> "", min_length |-> 1000, max_length |-> 0,
     phred |-> PhredEncoding_new("", 0)]

add_total_reads(self, n) == [self EXCEPT !.total_reads = @ + n]

add_total_bases(self, n) == [self EXCEPT !.total_bases = @ + n]

\* add_to_count without the line "self.n_count += n_count"
add_to_count_without_n(self, a_count, t_count, c_count, g_count, n_count) ==
    [self EXCEPT !.a_count = @ + a_count, !.t_count = @ + t_count,
                 !.c_count = @ + c_count, !.g_count = @ + g_count]

add_to_count(self, a_count, t_count, c_count, g_count, n_count) ==
    [self EXCEPT !.a_count = @ + a_count, !.t_count = @ + t_count,
                 !.c_count = @ + c_count, !.g_count = @ + g_count,
                 !.n_count = @ + n_count]

set_lowest_char(self, c) == [self EXCEPT !.lowest_char = c]

set_highest_char(self, c) == [self EXCEPT !.highest_char = c]

set_min_len(self, seq_len) ==
    IF seq_len < self.min_length THEN [self EXCEPT !.min_length = seq_len] ELSE self

set_max_len(self, seq_len) ==
    IF seq_len > self.max_length THEN [self EXCEPT !.max_length = seq_len] ELSE self

set_phred(self) ==
    LET r == get_fastq_encoding_offset(self.lowest_char)
    IN  IF r.panic /= "none" THEN Panic(r.panic, self)
        ELSE Ok([self EXCEPT !.phred = r.v])

set_gc_percentage(self) ==
    [self EXCEPT !.gc_percentage = Rat(self.g_count + self.c_count, self.total_bases)]

BasicStats_finish(self) ==
    LET r == set_phred(self)
    IN  IF r.panic /= "none" THEN r ELSE Ok(set_gc_percentage(r.v))

-----------------------------------------------------------------------------
(* PerSeqQualityScore *)

PerSeqQualityScore_new ==
    [average_score_counts |-> <<>>, y_category_count |-> <<>>,
     x_category_quality |-> <<>>, max_counts |-> 0, most_frequent_score |-> 0,
     lowest_char |-> 126]

RECURSIVE SumSeq(_)
SumSeq(q) == IF q = <<>> THEN 0 ELSE Head(q) + SumSeq(Tail(q))

RECURSIVE MinOf(_, _)
\* the running minimum kept by "if num < lowest { lowest = num }" over q
MinOf(q, lowest) ==
    IF q = <<>> THEN lowest
    ELSE MinOf(Tail(q), IF Head(q) < lowest THEN Head(q) ELSE lowest)

RECURSIVE MaxOf(_, _)
MaxOf(q, highest) ==
    IF q = <<>> THEN highest
    ELSE MaxOf(Tail(q), IF highest < Head(q) THEN Head(q) ELSE highest)

\* HashMap::insert(k, v) on a map kept as a function
MapInsert(m, k, v) == [x \in (DOMAIN m) \cup {k} |-> IF x = k THEN v ELSE m[x]]

PerSeqQualityScore_process_sequence(self, record) ==
    LET s1 == [self EXCEPT !.lowest_char = MinOf(record.qual, @)]
        average_quality == SumSeq(record.qual) \div Len(record.qual)
    IN  IF Len(record.qual) > 0
        THEN [s1 EXCEPT !.average_score_counts =
                 IF average_quality \in DOMAIN @
                 THEN MapInsert(@, average_quality, @[average_quality] + 1)
                 ELSE MapInsert(@, average_quality, 1)]
        ELSE s1

RECURSIVE most_frequent_loop(_, _, _)
\* "for i in 0..raw_scores.len()" of calculate_distribution, n the number of keys
most_frequent_loop(self, i, n) ==
    IF i >= n THEN self
    ELSE most_frequent_loop(
             IF self.y_category_count[i + 1] > self.max_counts
             THEN [self EXCEPT !.max_counts = self.y_category_count[i + 1],
                               !.most_frequent_score = self.x_category_quality[i + 1]]
             ELSE self,
             i + 1, n)

\* raw_scores is the sorted list of the keys of average_score_counts; with no key
\* "raw_scores.len()-1" overflows: a panic in a debug build, the index
\* usize::MAX in a release build.  No x_category_quality is below zero: every
\* average is at least lowest_char, which is above the offset.
PerSeqQualityScore_calculate_distribution(self, build) ==
    LET enc == get_fastq_encoding_offset(self.lowest_char)
        keys == DOMAIN self.average_score_counts
        first == CHOOSE k \in keys : \A j \in keys : k <= j
        last == CHOOSE k \in keys : \A j \in keys : j <= k
        len == last - first + 1
        s1 == [self EXCEPT
                 !.y_category_count =
                     [i \in 1..len |->
                         IF first + i - 1 \in keys
                         THEN self.average_score_counts[first + i - 1] ELSE 0],
                 !.x_category_quality =
                     [i \in 1..len |-> (first + i - 1) - enc.v.offset]]
    IN  IF enc.panic /= "none" THEN Panic(enc.panic, self)
        ELSE IF keys = {}
        THEN Panic(IF build = "debug" THEN "attempt to subtract with overflow"
                   ELSE "index out of bounds", self)
        ELSE Ok(most_frequent_loop(s1, 0, Cardinality(keys)))

-----------------------------------------------------------------------------
(* PerBaseSeqContent *)

PerBaseSeqContent_new ==
    [g_counts |-> <<>>, c_counts |-> <<>>, a_counts |-> <<>>, t_counts |-> <<>>,
     percentages |-> <<>>, x_category |-> <<>>]

\* v grown with zeros to length n (never shrunk)
Grow(v, n) == IF Len(v) < n THEN v \o [k \in 1..(n - Len(v)) |-> 0] ELSE v

\* v with 1 added at every position whose base is b
CountAt(v, seq, b) ==
    [k \in 1..Len(v) |-> IF k <= Len(seq) /\ seq[k] = b THEN v[k] + 1 ELSE v[k]]

PerBaseSeqContent_process_sequence(self, record) ==
    LET seq_len == Len(record.seq)
    IN  [self EXCEPT
           !.g_counts = CountAt(Grow(@, seq_len), record.seq, "G"),
           !.a_counts = CountAt(Grow(@, seq_len), record.seq, "A"),
           !.c_counts = CountAt(Grow(@, seq_len), record.seq, "C"),
           !.t_counts = CountAt(Grow(@, seq_len), record.seq, "T")]

-----------------------------------------------------------------------------
(* GCModel and PerSeqGCContent *)

GCModelValue_new(percentage, increment) ==
    [percentage |-> percentage, increment |-> increment]

GCModel_new == [read_length |-> 0, models |-> << <<>> >>]

\* (count * 100 / length).round() for count = half2 / 2
RoundPercent(half2, length) == (100 * half2 + length) \div (2 * length)

low_percent(pos, length) ==
    LET l0 == 2 * pos - 1
        l1 == IF l0 < 0 THEN 0 ELSE l0
        l2 == IF l1 > 2 * length THEN 2 * length ELSE l1
    IN  RoundPercent(l2, length)

high_percent(pos, length) ==
    LET h0 == 2 * pos + 1
        h1 == IF h0 < 0 THEN 0 ELSE h0
        h2 == IF h1 > 2 * length THEN 2 * length ELSE h1
    IN  RoundPercent(h2, length)

claim_counts(length) ==
    [p \in 0..100 |->
        Cardinality({pos \in 0..length :
                        low_percent(pos, length) <= p /\ p <= high_percent(pos, length)})]

new_by_len(length) ==
    LET cc == claim_counts(length)
    IN  [read_length |-> length,
         models |-> [k \in 1..(length + 1) |->
                       LET lo == low_percent(k - 1, length)
                           hi == high_percent(k - 1, length)
                       IN  [j \in 1..(hi - lo + 1) |->
                               GCModelValue_new(lo + j - 1, Rat(1, cc[lo + j - 1]))]]]

get_model_values(model, gc_count) == model.models[gc_count + 1]

PerSeqGCContent_new ==
    [x_category |-> <<>>,
     y_gc_distribution |-> [k \in 1..101 |-> Zero],
     y_theo_distribution |-> [k \in 1..101 |-> Zero],
     max |-> Zero, deviation_percent |-> Zero, cached_models |-> <<>>]

truncate_sequence(record) ==
    LET seq_len == Len(record.seq)
    IN  IF seq_len > 1000 THEN SubSeq(record.seq, 1, (seq_len \div 1000) * 1000)
        ELSE IF seq_len > 100 THEN SubSeq(record.seq, 1, (seq_len \div 100) * 100)
        ELSE record.seq

RECURSIVE add_increments(_, _, _)
add_increments(dist, values, i) ==
    IF i > Len(values) THEN dist
    ELSE add_increments(
            [dist EXCEPT ![values[i].percentage + 1] = RatAdd(@, values[i].increment)],
            values, i + 1)

PerSeqGCContent_process_sequence(self, record) ==
    LET seq == truncate_sequence(record)
        this_seq_length == Len(seq)
        this_seq_gc_count == Cardinality({i \in 1..this_seq_length : seq[i] \in {"G", "C"}})
        cached_models_len == Len(self.cached_models)
        padded == self.cached_models \o
                    [k \in 1..(this_seq_length - cached_models_len) |-> GCModel_new]
        models == IF Len(padded) <= this_seq_length
                  THEN Append(padded, new_by_len(this_seq_length))
                  ELSE padded
    IN  IF this_seq_length = 0 THEN self
        ELSE IF cached_models_len <= this_seq_length
        THEN [self EXCEPT
                !.cached_models = models,
                !.y_gc_distribution =
                    add_increments(@, get_model_values(models[this_seq_length + 1],
                                                       this_seq_gc_count), 1)]
        ELSE self

-----------------------------------------------------------------------------
(* PerBaseNContent and SeqLenDistribution *)

PerBaseNContent_new ==
    [n_counts |-> <<>>, not_n_counts |-> <<>>, percentages |-> <<>>, x_categories |-> <<>>]

PerBaseNContent_process_sequence(self, record) ==
    LET seq_len == Len(record.seq)
        n1 == Grow(self.n_counts, seq_len)
        nn1 == Grow(self.not_n_counts, seq_len)
    IN  [self EXCEPT
           !.n_counts = CountAt(n1, record.seq, "N"),
           !.not_n_counts = [k \in 1..Len(nn1) |->
                               IF k <= seq_len /\ record.seq[k] /= "N"
                               THEN nn1[k] + 1 ELSE nn1[k]]]

SeqLenDistribution_new ==
    [len_counts |-> <<>>, graph_counts |-> <<>>, x_categories |-> <<>>, max |-> 0]

SeqLenDistribution_process_sequence(self, record) ==
    LET seq_len == Len(record.seq)
    IN  [self EXCEPT !.len_counts = [Grow(@, seq_len + 2) EXCEPT ![seq_len + 1] = @ + 1]]

\* the most intervals get_size_distribution lets the length range span
CATEGORY_LIMIT == 50

RECURSIVE base_loop(_, _)
\* "while base > (max-min) { base /= 10; }"
base_loop(base, span) == IF base > span THEN base_loop(base \div 10, span) ELSE base

RECURSIVE interval_loop(_, _, _)
\* the loop 'outer of get_size_distribution: d runs over the divisions 1, 2, 5
interval_loop(base, d, span) ==
    LET divisions == <<1, 2, 5>>
        tester == base * divisions[d + 1]
    IN  IF tester = 0 THEN Panic("attempt to divide by zero", 0)
        ELSE IF span \div tester <= CATEGORY_LIMIT THEN Ok(tester)
        ELSE IF d + 1 < Len(divisions) THEN interval_loop(base, d + 1, span)
        ELSE interval_loop(base * 10, 0, span)

\* f32::round of a / b for a >= 0 and b > 0: halves go away from zero
RoundDiv(a, b) == (2 * a + b) \div (2 * b)

get_size_distribution(min, max, build) ==
    LET span == usize_sub(max, min, build)
        interval == interval_loop(base_loop(1, span.v), 0, span.v)
    IN  IF span.panic /= "none" THEN Panic(span.panic, <<0, 1>>)
        ELSE IF interval.panic /= "none" THEN Panic(interval.panic, <<0, 1>>)
        ELSE Ok(<<RoundDiv(min, interval.v) * interval.v, interval.v>>)

\* calculate_distribution up to the loop that counts the categories: the values
\* of its local variables when that loop is entered
calculate_distribution_enter(self, build) ==
    LET seen == {i \in 0..(Len(self.len_counts) - 1) : self.len_counts[i + 1] > 0}
        first == IF seen = {} THEN 0 ELSE CHOOSE i \in seen : \A j \in seen : i <= j
        last == IF seen = {} THEN 0 ELSE CHOOSE i \in seen : \A j \in seen : j <= i
        min_len == IF first > 0 THEN first - 1 ELSE first
        max_len == last + 1
        r == get_size_distribution(min_len, max_len, build)
    IN  [panic |-> r.panic,
         v |-> [min_len |-> min_len, max_len |-> max_len, start_and_interval |-> r.v,
                categories_counts |-> 0, current_value |-> r.v[1]]]

\* one pass of "while current_value <= max_len": current_value is set to the
\* interval, start_and_interval[1], not moved on by it
count_categories_body(l) ==
    [l EXCEPT !.categories_counts = @ + 1, !.current_value = l.start_and_interval[2]]

\* format!("{}", min_val) and format!("{}-{}", min_val, max_val)
Category(interval, min_val, max_val) ==
    IF interval = 1 THEN ToString(min_val)
    ELSE ToString(min_val) \o "-" \o ToString(max_val)

\* calculate_distribution from the end of that loop on
calculate_distribution_fill(self, l) ==
    LET start == l.start_and_interval[1]
        interval == l.start_and_interval[2]
        min_val(i) == start + interval * i
        max_val(i) == IF start + interval * (i + 1) - 1 > l.max_len THEN l.max_len
                      ELSE start + interval * (i + 1) - 1
        graph_counts ==
            [k \in 1..l.categories_counts |->
                SumSeq([b \in 1..(max_val(k - 1) + 1 - min_val(k - 1)) |->
                          IF min_val(k - 1) + b - 1 < Len(self.len_counts)
                          THEN self.len_counts[min_val(k - 1) + b] ELSE 0])]
    IN  [self EXCEPT
            !.graph_counts = graph_counts,
            !.x_categories = [k \in 1..l.categories_counts |->
                                 Category(interval, min_val(k - 1), max_val(k - 1))],
            !.max = MaxOf(graph_counts, 0)]

-----------------------------------------------------------------------------
(* OverRepresentedSeqs *)

OBSERVATION_CUTOFF == 100000

OverRepresentedSeqs_new ==
    [sequences |-> <<>>, count |-> 0, overrepresented_seqs |-> <<>>,
     frozen |-> FALSE, OBSERVATION_CUTOFF |-> OBSERVATION_CUTOFF,
     unique_seq_count |-> 0, count_at_unique_limit |-> 0]

\* process_sequence without the test of frozen before a new sequence is admitted
OverRepresentedSeqs_process_sequence_never_frozen(self, record) ==
    LET s1 == [self EXCEPT !.count = @ + 1]
        seq == IF Len(record.seq) > 75 THEN SubSeq(record.seq, 1, 50) ELSE record.seq
    IN  IF seq \in DOMAIN s1.sequences
        THEN [s1 EXCEPT
                !.sequences = MapInsert(@, seq, @[seq] + 1),
                !.count_at_unique_limit = IF ~s1.frozen THEN s1.count ELSE @]
        ELSE [s1 EXCEPT
                !.sequences = MapInsert(@, seq, 1),
                !.unique_seq_count = @ + 1,
                !.count_at_unique_limit = s1.count,
                !.frozen = (s1.unique_seq_count + 1 = s1.OBSERVATION_CUTOFF)]

\* process_sequence without the test of frozen before count_at_unique_limit is
\* set for a known sequence
OverRepresentedSeqs_process_sequence_limit_moves(self, record) ==
    LET s1 == [self EXCEPT !.count = @ + 1]
        seq == IF Len(record.seq) > 75 THEN SubSeq(record.seq, 1, 50) ELSE record.seq
    IN  IF seq \in DOMAIN s1.sequences
        THEN [s1 EXCEPT
                !.sequences = MapInsert(@, seq, @[seq] + 1),
                !.count_at_unique_limit = s1.count]
        ELSE IF ~s1.frozen
        THEN [s1 EXCEPT
                !.sequences = MapInsert(@, seq, 1),
                !.unique_seq_count = @ + 1,
                !.count_at_unique_limit = s1.count,
                !.frozen = (s1.unique_seq_count + 1 = s1.OBSERVATION_CUTOFF)]
        ELSE s1

OverRepresentedSeqs_process_sequence(self, record) ==
    LET s1 == [self EXCEPT !.count = @ + 1]
        seq == IF FASTQC_CONFIG_DUP_LENGTH /= 0
               THEN SubSeq(record.seq, 1, FASTQC_CONFIG_DUP_LENGTH)
               ELSE IF Len(record.seq) > 75 THEN SubSeq(record.seq, 1, 50)
               ELSE record.seq
    IN  IF seq \in DOMAIN s1.sequences
        THEN [s1 EXCEPT
                !.sequences = MapInsert(@, seq, @[seq] + 1),
                !.count_at_unique_limit = IF ~s1.frozen THEN s1.count ELSE @]
        ELSE IF ~s1.frozen
        THEN [s1 EXCEPT
                !.sequences = MapInsert(@, seq, 1),
                !.unique_seq_count = @ + 1,
                !.count_at_unique_limit = s1.count,
                !.frozen = (s1.unique_seq_count + 1 = s1.OBSERVATION_CUTOFF)]
        ELSE s1

-----------------------------------------------------------------------------
(* Adapter and AdapterContent *)

Adapter_new(name, sequence) == [name |-> name, sequence |-> sequence, positions |-> <<0>>]

expand_length_to(self, new_length) ==
    LET old_len == Len(self.positions)
    IN  IF new_length > old_len
        THEN [self EXCEPT !.positions =
                 @ \o [k \in 1..(new_length - old_len) |-> self.positions[old_len]]]
        ELSE self

\* str::find: the 0-based index of the first occurrence of sub in s, or -1 for None
Find(s, sub) ==
    LET hits == {i \in 0..(Len(s) - Len(sub)) : SubSeq(s, i + 1, i + Len(sub)) = sub}
    IN  IF hits = {} THEN -1 ELSE CHOOSE i \in hits : \A j \in hits : i <= j

AdapterContent_new ==
    [longest_sequence |-> 0, longest_adpater |-> 0, total_count |-> 0,
     adapters |-> <<>>, enrichments |-> << <<Zero>> >>, groups |-> <<>>]

RECURSIVE Adapter_increment_loop(_, _, _)
\* Adapter::increment_count(i) for i in from..to-1
Adapter_increment_loop(adapter, from, to) ==
    IF from >= to THEN Ok(adapter)
    ELSE IF from >= Len(adapter.positions) THEN Panic("index out of bounds", adapter)
    ELSE Adapter_increment_loop([adapter EXCEPT !.positions[from + 1] = @ + 1], from + 1, to)

RECURSIVE AdapterContent_find_loop(_, _, _)
AdapterContent_find_loop(self, record, a) ==
    IF a > Len(self.adapters) THEN Ok(self)
    ELSE LET index == Find(record.seq, self.adapters[a].sequence)
             r == Adapter_increment_loop(self.adapters[a], index,
                     self.longest_sequence - self.longest_adpater + 1)
             s1 == [self EXCEPT !.adapters[a] = r.v]
         IN  IF index = -1 THEN AdapterContent_find_loop(self, record, a + 1)
             ELSE IF r.panic /= "none" THEN Panic(r.panic, s1)
             ELSE AdapterContent_find_loop(s1, record, a + 1)

AdapterContent_process_sequence(self, record) ==
    LET s1 == [self EXCEPT !.total_count = @ + 1]
        seq_len == Len(record.seq)
        s2 == IF seq_len > s1.longest_sequence /\ seq_len > s1.longest_adpater
              THEN [s1 EXCEPT
                      !.longest_sequence = seq_len,
                      !.adapters = [a \in 1..Len(@) |->
                                      expand_length_to(@[a], seq_len - s1.longest_adpater + 1)]]
              ELSE s1
    IN  AdapterContent_find_loop(s2, record, 1)

-----------------------------------------------------------------------------
(* SeqDuplicationLevel *)

SeqDuplicationLevel_new(overrepresented_module) ==
    [overrepresented_module |-> overrepresented_module,
     dedup_percentages |-> <<>>, total_percentages |-> <<>>,
     max_count |-> Zero, percent_diff_seq |-> Zero]

RECURSIVE pnot_see_loop(_, _, _, _, _, _)
\* "for i in 0..count_at_limit" of get_corrected_count.  (total_count - i) -
\* duplicate_level goes down by one per pass from total_count - duplicate_level,
\* which is not negative, and the loop is left at the pass where it is zero.
pnot_see_loop(i, count_at_limit, total_count, duplicate_level, pnot_see, limit_of_care) ==
    IF i >= count_at_limit THEN pnot_see
    ELSE LET p == RatMul(pnot_see,
                         Rat((total_count - i) - duplicate_level, total_count - i))
         IN  IF RatLess(p, limit_of_care) THEN Zero
             ELSE pnot_see_loop(i + 1, count_at_limit, total_count, duplicate_level, p,
                                limit_of_care)

\* limit_of_care is 1.0 - n / (n + 0.01), that is 1 / (100 n + 1)
get_corrected_count(count_at_limit, total_count, duplicate_level, number_of_observe) ==
    IF \/ count_at_limit = total_count
       \/ total_count - number_of_observe < number_of_observe
    THEN Rat(number_of_observe, 1)
    ELSE LET limit_of_care == Rat(1, 100 * number_of_observe + 1)
             pnot_see_at_limit == pnot_see_loop(0, count_at_limit, total_count,
                                                duplicate_level, Rat(1, 1), limit_of_care)
             p_see_at_limit == RatAdd(Rat(1, 1), RatMul(Rat(-1, 1), pnot_see_at_limit))
         IN  RatDiv(Rat(number_of_observe, 1), p_see_at_limit)

\* the slot calculate_levels chooses for a duplication level
dup_slot(dup_level) ==
    LET slot == dup_level - 1
    IN  IF slot > 9999 THEN 15
        ELSE IF slot > 4999 THEN 14
        ELSE IF slot > 999 THEN 13
        ELSE IF slot > 499 THEN 12
        ELSE IF slot > 99 THEN 11
        ELSE IF slot > 49 THEN 10
        ELSE IF slot > 9 THEN 9
        ELSE slot

RECURSIVE RatSum(_, _)
\* the sum of f[d] over the d in S
RatSum(f, S) ==
    IF S = {} THEN Zero
    ELSE LET d == CHOOSE x \in S : TRUE IN RatAdd(f[d], RatSum(f, S \ {d}))

\* the sums are exact here, so the order in which the HashMaps are iterated does
\* not show
calculate_levels(self) ==
    LET m == self.overrepresented_module
        levels == {m.sequences[q] : q \in DOMAIN m.sequences}
        collated_counts ==
            [d \in levels |-> Cardinality({q \in DOMAIN m.sequences : m.sequences[q] = d})]
        corrected_counts ==
            [d \in levels |-> get_corrected_count(m.count_at_unique_limit, m.count, d,
                                                  collated_counts[d])]
        raw_counts == [d \in levels |-> RatMul(corrected_counts[d], Rat(d, 1))]
        dedup_total == RatSum(corrected_counts, levels)
        raw_total == RatSum(raw_counts, levels)
        InSlot(i) == {d \in levels : dup_slot(d) = i}
    IN  IF Len(self.dedup_percentages) /= 0 THEN self
        ELSE [self EXCEPT
                !.dedup_percentages =
                    [i \in 1..16 |->
                        RatMul(RatDiv(RatSum(corrected_counts, InSlot(i - 1)), dedup_total),
                               Rat(100, 1))],
                !.total_percentages =
                    [i \in 1..16 |->
                        RatMul(RatDiv(RatSum(raw_counts, InSlot(i - 1)), raw_total),
                               Rat(100, 1))],
                !.percent_diff_seq =
                    IF raw_total = Zero THEN Rat(100, 1)
                    ELSE RatMul(RatDiv(dedup_total, raw_total), Rat(100, 1))]

-----------------------------------------------------------------------------
(* Kmer and KmerContent *)

Kmer_new(sequence, position, seq_len) ==
    [sequence |-> sequence, count |-> 1, lowest_pvalue |-> Zero,
     obs_exp_position |-> <<>>,
     positions |-> [k \in 1..seq_len |-> IF k = position + 1 THEN 1 ELSE 0]]

increment_count(self, position) ==
    LET s1 == [self EXCEPT !.count = @ + 1]
    IN  IF position > Len(s1.positions)
        THEN [s1 EXCEPT !.positions =
                 [Grow(@, position + 1) EXCEPT ![position + 1] = @ + 1]]
        ELSE s1

MIN_KMER_SIZE == IF FASTQC_CONFIG_KMER_SIZE /= 0 THEN FASTQC_CONFIG_KMER_SIZE ELSE 7
MAX_KMER_SIZE == IF FASTQC_CONFIG_KMER_SIZE /= 0 THEN FASTQC_CONFIG_KMER_SIZE ELSE 7

KmerContent_new ==
    [kmers |-> <<>>, longest_sequence |-> 0,
     total_kmer_counts |-> << [k \in 1..MAX_KMER_SIZE |-> 0] >>,
     skip_count |-> 0, MIN_KMER_SIZE |-> MIN_KMER_SIZE, MAX_KMER_SIZE |-> MAX_KMER_SIZE,
     enriched_kmers |-> <<>>, enrichments |-> <<>>,
     min_gragh_value |-> Zero, max_gragh_value |-> Zero, groups |-> <<>>]

add_kmer_count(self, position, kemer_len, kmer) ==
    LET total_kmer_counts_len == Len(self.total_kmer_counts)
        grown == IF position >= total_kmer_counts_len
                 THEN self.total_kmer_counts \o
                        [k \in 1..(position + 1 - total_kmer_counts_len) |->
                            [j \in 1..self.MAX_KMER_SIZE |-> 0]]
                 ELSE self.total_kmer_counts
    IN  IF \E k \in 1..Len(kmer) : kmer[k] = "N"
        THEN [self EXCEPT !.total_kmer_counts = grown]
        ELSE [self EXCEPT !.total_kmer_counts =
                 [grown EXCEPT ![position + 1][kemer_len] = @ + 1]]

RECURSIVE kmer_window_loop(_, _, _, _, _)
\* for i in from..to-1 { ... } of KmerContent::process_sequence, one kmer_size
kmer_window_loop(self, seq, kmer_size, i, to) ==
    IF i >= to THEN self
    ELSE LET kmer == SubSeq(seq, i + 1, i + kmer_size)
             s1 == add_kmer_count(self, i, kmer_size, kmer)
             s2 == IF kmer \in DOMAIN s1.kmers
                   THEN [s1 EXCEPT !.kmers = MapInsert(@, kmer, increment_count(@[kmer], i))]
                   ELSE [s1 EXCEPT !.kmers =
                            MapInsert(@, kmer, Kmer_new(kmer, i, Len(seq) - kmer_size + 1))]
         IN  kmer_window_loop(s2, seq, kmer_size, i + 1, to)

RECURSIVE kmer_size_loop(_, _, _, _)
kmer_size_loop(self, seq, kmer_size, build) ==
    IF kmer_size > self.MAX_KMER_SIZE THEN Ok(self)
    ELSE IF Len(seq) < kmer_size /\ build = "debug"
    THEN Panic("attempt to subtract with overflow", self)
    ELSE IF Len(seq) + 1 < kmer_size
    THEN Panic("byte index out of range", self)
    ELSE kmer_size_loop(kmer_window_loop(self, seq, kmer_size, 0, Len(seq) - kmer_size + 1),
                        seq, kmer_size + 1, build)

KmerContent_process_sequence(self, record, build) ==
    LET s1 == [self EXCEPT !.skip_count = @ + 1]
        seq == IF Len(record.seq) > 500 THEN SubSeq(record.seq, 1, 500) ELSE record.seq
        s2 == IF Len(seq) > s1.longest_sequence
              THEN [s1 EXCEPT !.longest_sequence = Len(seq)] ELSE s1
    IN  IF s1.skip_count % 50 /= 0 THEN Ok(s1)
        ELSE kmer_size_loop(s2, seq, s2.MIN_KMER_SIZE, build)

-----------------------------------------------------------------------------
(* PerTileQualityScore *)

PerTileQualityScore_new ==
    [per_tile_quality_counts |-> <<>>, current_length |-> 0, means |-> <<>>,
     x_labels |-> <<>>, tiles |-> <<>>, high |-> 0, total_count |-> 0,
     split_position |-> -1, max_deviation |-> Zero, ignore_in_report |-> FALSE]

RECURSIVE add_values_loop(_, _, _)
\* tile_counts[i].add_value(qual[i]) for i in 0..qual.len()
add_values_loop(tile_counts, qual, i) ==
    IF i >= Len(qual) THEN Ok(tile_counts)
    ELSE LET r == add_value(tile_counts[i + 1], qual[i + 1])
         IN  IF r.panic /= "none" THEN Panic(r.panic, tile_counts)
             ELSE add_values_loop([tile_counts EXCEPT ![i + 1] = r.v], qual, i + 1)

\* the part of process_sequence after the tile number has been extracted
PerTileQualityScore_count(self, tile, qual) ==
    LET s1 == IF self.current_length < Len(qual)
              THEN [self EXCEPT
                      !.per_tile_quality_counts =
                          [t \in DOMAIN @ |->
                              @[t] \o [k \in 1..(Len(qual) - Len(@[t])) |-> QualityCount_new]],
                      !.current_length = Len(qual)]
              ELSE self
        s2 == IF tile \notin DOMAIN s1.per_tile_quality_counts
              THEN [s1 EXCEPT !.per_tile_quality_counts =
                       MapInsert(@, tile, [k \in 1..s1.current_length |-> QualityCount_new])]
              ELSE s1
        r == add_values_loop(s2.per_tile_quality_counts[tile], qual, 0)
    IN  IF tile \notin DOMAIN s1.per_tile_quality_counts
           /\ Cardinality(DOMAIN s1.per_tile_quality_counts) > 1000
        THEN Ok([s1 EXCEPT !.ignore_in_report = TRUE, !.per_tile_quality_counts = <<>>])
        ELSE IF r.panic /= "none" THEN Panic(r.panic, s2)
        ELSE Ok([s2 EXCEPT !.per_tile_quality_counts = MapInsert(@, tile, r.v)])

\* process_sequence without "if self.ignore_in_report { return; }"
PerTileQualityScore_process_sequence_no_skip(self, record) ==
    LET s0 == IF self.total_count = 0 /\ INDICATOR_CONFIG_TILE_IGNORE > 0
              THEN [self EXCEPT !.ignore_in_report = TRUE] ELSE self
        s1 == [s0 EXCEPT !.total_count = @ + 1]
        split_id_array == record.head
        parse(s, pos) ==
            LET tile == ParseUsize(split_id_array[pos + 1])
            IN  IF tile = -1
                THEN Panic("called Result::unwrap() on an Err value", s)
                ELSE PerTileQualityScore_count(s, tile, record.qual)
    IN  IF Len(record.qual) = 0 THEN Ok(s0)
        ELSE IF s1.total_count > 10000 /\ s1.total_count % 10 /= 0 THEN Ok(s1)
        ELSE IF s1.split_position >= 0
        THEN IF Len(split_id_array) <= s1.split_position
             THEN Ok([s1 EXCEPT !.ignore_in_report = TRUE])
             ELSE parse(s1, s1.split_position)
        ELSE IF Len(split_id_array) >= 5
        THEN parse([s1 EXCEPT !.split_position = 4], 4)
        ELSE IF Len(split_id_array) >= 7
        THEN parse([s1 EXCEPT !.split_position = 2], 2)
        ELSE Ok([s1 EXCEPT !.ignore_in_report = TRUE])

PerTileQualityScore_process_sequence(self, record) ==
    LET s0 == IF self.total_count = 0 /\ INDICATOR_CONFIG_TILE_IGNORE > 0
              THEN [self EXCEPT !.ignore_in_report = TRUE] ELSE self
        s1 == [s0 EXCEPT !.total_count = @ + 1]
        split_id_array == record.head
        parse(s, pos) ==
            LET tile == ParseUsize(split_id_array[pos + 1])
            IN  IF tile = -1
                THEN Panic("called Result::unwrap() on an Err value", s)
                ELSE PerTileQualityScore_count(s, tile, record.qual)
    IN  IF s0.ignore_in_report THEN Ok(s0)
        ELSE IF Len(record.qual) = 0 THEN Ok(s0)
        ELSE IF s1.total_count > 10000 /\ s1.total_count % 10 /= 0 THEN Ok(s1)
        ELSE IF s1.split_position >= 0
        THEN IF Len(split_id_array) <= s1.split_position
             THEN Ok([s1 EXCEPT !.ignore_in_report = TRUE])
             ELSE parse(s1, s1.split_position)
        ELSE IF Len(split_id_array) >= 5
        THEN parse([s1 EXCEPT !.split_position = 4], 4)
        ELSE IF Len(split_id_array) >= 7
        THEN parse([s1 EXCEPT !.split_position = 2], 2)
        ELSE Ok([s1 EXCEPT !.ignore_in_report = TRUE])

-----------------------------------------------------------------------------
(* FastQC, the aggregator *)

FastQC_new ==
    [basic_stats |-> BasicStats_new,
     per_base_seq_quality |-> PerBaseSeqQuality_new,
     per_seq_quality_score |-> PerSeqQualityScore_new,
     per_base_seq_content |-> PerBaseSeqContent_new,
     per_seq_gc_content |-> PerSeqGCContent_new,
     per_base_n_content |-> PerBaseNContent_new,
     seq_len_distribution |-> SeqLenDistribution_new,
     overrepresented_seqs |-> OverRepresentedSeqs_new,
     kmer_content |-> KmerContent_new,
     adpater_content |-> AdapterContent_new,
     per_tile_quality_score |-> PerTileQualityScore_new]

FastQC_finish(self) ==
    LET b == BasicStats_finish(self.basic_stats)
        s1 == [self EXCEPT !.basic_stats = b.v]
        q == PerBaseSeqQuality_get_percentages(s1.per_base_seq_quality,
                                               s1.basic_stats.phred.offset)
    IN  IF b.panic /= "none" THEN Panic(b.panic, s1)
        ELSE [panic |-> q.panic, v |-> [s1 EXCEPT !.per_base_seq_quality = q.v]]

set_highest_lowest_char(self, qual) ==
    [self EXCEPT !.basic_stats.lowest_char = MinOf(qual, @),
                 !.basic_stats.highest_char = MaxOf(qual, @)]

\* the number of bases of seq that are the character b
NumOf(seq, b) == Cardinality({i \in 1..Len(seq) : seq[i] = b})

\* counted_bases with the arm for 'N' left out of the match
counted_bases_without_n(seq) ==
    NumOf(seq, "T") + NumOf(seq, "C") + NumOf(seq, "G") + NumOf(seq, "A")

\* seq_len as the match on base_char leaves it: the bases that are T, C, G, A or N
counted_bases(seq) ==
    NumOf(seq, "T") + NumOf(seq, "C") + NumOf(seq, "G") + NumOf(seq, "A") + NumOf(seq, "N")

FastQC_process_sequence(self, record, build) ==
    LET seq_len == counted_bases(record.seq)
        b1 == [self.basic_stats EXCEPT
                 !.t_count = @ + NumOf(record.seq, "T"),
                 !.c_count = @ + NumOf(record.seq, "C"),
                 !.g_count = @ + NumOf(record.seq, "G"),
                 !.a_count = @ + NumOf(record.seq, "A"),
                 !.n_count = @ + NumOf(record.seq, "N"),
                 !.total_bases = @ + seq_len]
        b2 == set_max_len(set_min_len(b1, seq_len), seq_len)
        s0 == set_highest_lowest_char([self EXCEPT !.basic_stats = b2], record.qual)
        s1 == [s0 EXCEPT !.basic_stats.total_reads = @ + 1]
        r2 == process_qual(s1.per_base_seq_quality, record.qual)
        s2 == [s1 EXCEPT !.per_base_seq_quality = r2.v]
        s3 == [s2 EXCEPT
                 !.per_seq_quality_score = PerSeqQualityScore_process_sequence(@, record),
                 !.per_base_seq_content = PerBaseSeqContent_process_sequence(@, record),
                 !.per_seq_gc_content = PerSeqGCContent_process_sequence(@, record),
                 !.per_base_n_content = PerBaseNContent_process_sequence(@, record),
                 !.seq_len_distribution = SeqLenDistribution_process_sequence(@, record)]
        r4 == AdapterContent_process_sequence(s3.adpater_content, record)
        s4 == [s3 EXCEPT !.adpater_content = r4.v]
        r5 == KmerContent_process_sequence(s4.kmer_content, record, build)
        s5 == [s4 EXCEPT !.kmer_content = r5.v]
        r6 == PerTileQualityScore_process_sequence(s5.per_tile_quality_score, record)
        s6 == [s5 EXCEPT !.per_tile_quality_score = r6.v]
    IN  IF r2.panic /= "none" THEN Panic(r2.panic, s2)
        ELSE IF r4.panic /= "none" THEN Panic(r4.panic, s4)
        ELSE IF r5.panic /= "none" THEN Panic(r5.panic, s5)
        ELSE [panic |-> r6.panic, v |-> s6]

RECURSIVE merge_loop(_, _, _)
\* the body of "for i in fastqc_vec" for the siblings from index k on
merge_loop(self, fastqc_vec, k) ==
    IF k > Len(fastqc_vec) THEN Ok(self)
    ELSE LET i == fastqc_vec[k]
             b1 == add_to_count(self.basic_stats, i.basic_stats.a_count,
                                i.basic_stats.t_count, i.basic_stats.c_count,
                                i.basic_stats.g_count, i.basic_stats.n_count)
             b2 == add_total_reads(add_total_bases(b1, i.basic_stats.total_bases),
                                   i.basic_stats.total_reads)
             b3 == set_max_len(set_min_len(b2, i.basic_stats.min_length),
                               i.basic_stats.max_length)
             b4 == set_lowest_char(b3, i.basic_stats.lowest_char)
             q == add_quality_counts(self.per_base_seq_quality,
                                     i.per_base_seq_quality.quality_counts)
             s1 == [self EXCEPT !.basic_stats = b4, !.per_base_seq_quality = q.v]
         IN  IF q.panic /= "none" THEN Panic(q.panic, s1)
             ELSE merge_loop(s1, fastqc_vec, k + 1)

FastQC_merge(self, fastqc_vec) ==
    LET m == merge_loop(self, fastqc_vec, 1)
    IN  IF m.panic /= "none" THEN m ELSE FastQC_finish(m.v)

-----------------------------------------------------------------------------
(* Stand-alone QualityCount: add_value and add_quality_count on two values *)

\* ASCII quality characters fed to add_value
QualChars == {33, 53, 64, 65, 73, 126}

IdleQC == [i \in 1..2 |-> QualityCount_new]
IdlePhred == PhredEncoding_new("", 0)

AddValue(i, c) ==
    /\ fault = "none"
    /\ quality_count[i].total_counts < MaxCount
    /\ LET r == add_value(quality_count[i], c)
       IN  /\ quality_count' = [quality_count EXCEPT ![i] = r.v]
           /\ fault' = r.panic
    /\ pc' = "add_value"
    /\ UNCHANGED <<reportVars, fastqc, fed, merged, calls, merges, max_length, groups, acscii_num, encoding, unitVars>>

AddQualityCount(i, j) ==
    /\ fault = "none"
    /\ i /= j
    /\ quality_count[i].total_counts + quality_count[j].total_counts <= MaxCount
    /\ quality_count' =
          [quality_count EXCEPT ![i] = add_quality_count(quality_count[i], quality_count[j])]
    /\ pc' = "add_quality_count"
    /\ UNCHANGED <<reportVars, fastqc, fed, merged, calls, merges, fault, max_length, groups, acscii_num, encoding, unitVars>>

-----------------------------------------------------------------------------
(* BaseGroup::make_base_groups applied to one max_length *)

MakeBaseGroups ==
    /\ pc = "start"
    /\ fault = "none"
    /\ LET r == make_base_groups(max_length)
       IN  /\ groups' = r.v
           /\ fault' = r.panic
    /\ pc' = "done"
    /\ UNCHANGED <<reportVars, fastqc, fed, merged, calls, merges, quality_count, max_length, acscii_num, encoding, unitVars>>

-----------------------------------------------------------------------------
(* PhredEncoding::get_fastq_encoding_offset applied to one character code *)

GetFastqEncodingOffset ==
    /\ pc = "start"
    /\ fault = "none"
    /\ LET r == get_fastq_encoding_offset(acscii_num)
       IN  /\ encoding' = r.v
           /\ fault' = r.panic
    /\ pc' = "done"
    /\ UNCHANGED <<reportVars, fastqc, fed, merged, calls, merges, quality_count, max_length, groups, acscii_num, unitVars>>

-----------------------------------------------------------------------------
(* The aggregators: three FastQC values, each living the life of an         *)
(* aggregator: created, fed reads, then merged with siblings or finished,   *)
(* once; finish and merge are the last thing done to an aggregator, which   *)
(* siblings may still read.                                                 *)

RECURSIVE Flatten(_)
Flatten(ss) == IF ss = <<>> THEN <<>> ELSE Head(ss) \o Flatten(Tail(ss))

\* the slices of siblings a merge of aggregator a can be given
SiblingVecs(a) ==
    {<<b>> : b \in Aggs \ {a}} \cup
    {bc \in (Aggs \ {a}) \X (Aggs \ {a}) : bc[1] /= bc[2]}

\* finish has run on aggregator a: its encoding is set
Finished(a) == fastqc[a].basic_stats.phred.name /= ""

ProcessSequence(a, record, build) ==
    /\ fault = "none"
    /\ ~Finished(a)
    /\ calls < MaxCalls
    /\ LET r == FastQC_process_sequence(fastqc[a], record, build)
       IN  /\ fastqc' = [fastqc EXCEPT ![a] = r.v]
           /\ fault' = r.panic
    /\ fed' = [fed EXCEPT ![a] = Append(@, record)]
    /\ calls' = calls + 1
    /\ UNCHANGED <<reportVars, merged, merges, quality_count, max_length, groups, acscii_num, encoding, pc, unitVars>>

Merge(a, others) ==
    /\ fault = "none"
    /\ ~Finished(a)
    /\ merges < MaxMerges
    /\ LET r == FastQC_merge(fastqc[a], [k \in 1..Len(others) |-> fastqc[others[k]]])
       IN  /\ fastqc' = [fastqc EXCEPT ![a] = r.v]
           /\ fault' = r.panic
    /\ merged' = [merged EXCEPT ![a] =
                      @ \o Flatten([k \in 1..Len(others) |->
                                       fed[others[k]] \o merged[others[k]]])]
    /\ merges' = merges + 1
    /\ UNCHANGED <<reportVars, fed, calls, quality_count, max_length, groups, acscii_num, encoding, pc, unitVars>>

\* the distribution of aggregator a's per-sequence quality scores has been calculated
Calculated(a) == fastqc[a].per_seq_quality_score.y_category_count /= <<>>

CalculateDistribution(a, build) ==
    /\ fault = "none"
    /\ ~Calculated(a)
    /\ LET r == PerSeqQualityScore_calculate_distribution(fastqc[a].per_seq_quality_score, build)
       IN  /\ fastqc' = [fastqc EXCEPT ![a].per_seq_quality_score = r.v]
           /\ fault' = r.panic
    /\ UNCHANGED <<reportVars, fed, merged, calls, merges, pureVars, pc, unitVars>>

Finish(a) ==
    /\ fault = "none"
    /\ ~Finished(a)
    /\ LET r == FastQC_finish(fastqc[a])
       IN  /\ fastqc' = [fastqc EXCEPT ![a] = r.v]
           /\ fault' = r.panic
    /\ UNCHANGED <<reportVars, fed, merged, calls, merges, quality_count, max_length, groups,
                   acscii_num, encoding, pc, unitVars>>

-----------------------------------------------------------------------------
(* Contaminant and ContaminantHit.  A string is a sequence of one-character *)
(* strings.  A usize that wrapped around in a release build is kept as the  *)
(* negative integer congruent to it modulo 2^64.                            *)

FORWARD_TYPE == 1
REVERSE_TYPE == 2

None == [some |-> FALSE]
Some(v) == [some |-> TRUE, v |-> v]

\* char::to_uppercase on the characters used here
UpperChar(c) ==
    CASE c = "a" -> "A" [] c = "c" -> "C" [] c = "g" -> "G" [] c = "t" -> "T"
      [] c = "n" -> "N" [] OTHER -> c

to_uppercase(str) == [i \in 1..Len(str) |-> UpperChar(str[i])]

\* str::contains
Contains(str, sub) ==
    \E i \in 0..(Len(str) - Len(sub)) : SubSeq(str, i + 1, i + Len(sub)) = sub

IdleContaminant == [name |-> "", forward |-> <<>>, reverse |-> <<>>]

Complement(c) ==
    CASE c = "G" -> "C" [] c = "A" -> "T" [] c = "T" -> "A" [] c = "C" -> "G"

Contaminant_new(name, sequence) ==
    IF \E i \in 1..Len(sequence) : sequence[i] \notin {"G", "A", "T", "C"}
    THEN Panic("Contaminant contained the illegal character", IdleContaminant)
    ELSE Ok([name |-> name,
             forward |-> sequence,
             reverse |-> [i \in 1..Len(sequence) |->
                            Complement(sequence[Len(sequence) + 1 - i])]])

ContaminantHit_new(contaminant_arg, direction, length, percent_id) ==
    [contaminant |-> contaminant_arg, direction |-> direction,
     length |-> length, percent_id |-> percent_id]

\* the replacement of best_hit_option in sub_find_match by a hit of the given
\* length and identity
better_hit(self, best, direction, length, id) ==
    IF ~best.some THEN Some(ContaminantHit_new(self, direction, length, id))
    ELSE IF best.v.length < length \/ (best.v.length = length /\ best.v.percent_id < id)
    THEN Some(ContaminantHit_new(self, direction, length, id))
    ELSE best

RECURSIVE sub_find_loop(_, _, _, _, _, _)
\* the for loop of sub_find_match; st holds i, start, end, mismatch_count and
\* best_hit_option.  "i + offset < 0" is never true of a usize.
sub_find_loop(self, ca, cb, offset, direction, st) ==
    IF st.i >= Len(ca) \/ st.i + offset < 0 \/ st.i + offset >= Len(cb)
    THEN st
    ELSE IF ca[st.i + 1] = cb[st.i + offset + 1]
    THEN sub_find_loop(self, ca, cb, offset, direction,
                       [st EXCEPT !.i = @ + 1, !.end = st.i])
    ELSE IF 1 + (st.end - st.start) > 20
    THEN LET len == 1 + (st.end - st.start)
             id == ((len - st.mismatch_count) * 100) \div len
         IN  sub_find_loop(self, ca, cb, offset, direction,
                           [i |-> st.i + 1, start |-> st.i + 1, end |-> st.i + 1,
                            mismatch_count |-> 0,
                            best |-> better_hit(self, st.best, direction, len, id)])
    ELSE sub_find_loop(self, ca, cb, offset, direction,
                       [st EXCEPT !.i = @ + 1, !.mismatch_count = @ + 1])

sub_find_match(self, ca, cb, offset, direction) ==
    LET st == sub_find_loop(self, ca, cb, offset, direction,
                            [i |-> 0, start |-> 0, end |-> 0, mismatch_count |-> 0,
                             best |-> None])
        len == 1 + (st.end - st.start)
    IN  IF len > 20
        THEN better_hit(self, st.best, direction, len,
                        ((len - st.mismatch_count) * 100) \div len)
        ELSE st.best

\* the offsets "for offset in lo..hi" runs through.  When hi wrapped around and
\* lo did not, the loop goes on up to 2^64 + hi; every offset from cb_len on
\* makes sub_find_match leave its loop at once with no hit, so only the offsets
\* below cb_len are kept.
offset_range(lo, hi, cb_len) ==
    IF ~usize_less(lo, hi) THEN <<>>
    ELSE IF (lo >= 0) = (hi >= 0) THEN [k \in 1..(hi - lo) |-> lo + k - 1]
    ELSE [k \in 1..(cb_len - lo) |-> lo + k - 1]

RECURSIVE best_hit_loop(_, _, _, _, _)
\* one of the two "for offset" loops of find_match
best_hit_loop(self, query_arg, offsets, direction, best) ==
    IF offsets = <<>> THEN best
    ELSE LET this_hit_option ==
                 sub_find_match(self, self.forward, query_arg, Head(offsets), direction)
         IN  best_hit_loop(self, query_arg, Tail(offsets), direction,
                           IF ~this_hit_option.some THEN best
                           ELSE IF ~best.some \/ this_hit_option.v.length > best.v.length
                           THEN this_hit_option
                           ELSE best)

find_match(self, query_arg, build) ==
    LET q == to_uppercase(query_arg)
        length == Len(q)
        d == usize_sub(Len(self.forward), 20, build)
        lo == usize_sub(0, d.v, build)
        hi == usize_sub(Len(q), 20, build)
        offsets == offset_range(lo.v, hi.v, Len(q))
        forward_best == best_hit_loop(self, q, offsets, FORWARD_TYPE, None)
    IN  IF length < 20 /\ length > 8 /\ Contains(self.forward, q)
        THEN Ok(Some(ContaminantHit_new(self, FORWARD_TYPE, Len(q), 100)))
        ELSE IF length < 20 /\ length > 8 /\ Contains(self.reverse, q)
        THEN Ok(Some(ContaminantHit_new(self, REVERSE_TYPE, Len(q), 100)))
        ELSE IF d.panic /= "none" THEN Panic(d.panic, None)
        ELSE IF lo.panic /= "none" THEN Panic(lo.panic, None)
        ELSE IF hi.panic /= "none" THEN Panic(hi.panic, None)
        ELSE Ok(best_hit_loop(self, q, offsets, REVERSE_TYPE, forward_best))

ContaminentFinder_new == [contaminants |-> <<>>]

RECURSIVE find_contaminants_loop(_, _, _, _, _)
\* "for c in 0..self.contaminants.len()" of find_contaminants_hit.  The second
\* disjunct of the replacement test compares this_hit's length with itself.
find_contaminants_loop(self, sequences, c, best_hit, build) ==
    IF c >= Len(self.contaminants) THEN Ok(best_hit)
    ELSE LET this_hit == find_match(self.contaminants[c + 1], sequences, build)
         IN  IF this_hit.panic /= "none" THEN Panic(this_hit.panic, None)
             ELSE IF ~this_hit.v.some
             THEN find_contaminants_loop(self, sequences, c + 1, best_hit, build)
             ELSE IF \/ ~best_hit.some
                     \/ this_hit.v.v.length > this_hit.v.v.length
                     \/ /\ this_hit.v.v.length = best_hit.v.length
                        /\ this_hit.v.v.percent_id > best_hit.v.percent_id
             THEN find_contaminants_loop(self, sequences, c + 1, this_hit.v, build)
             ELSE find_contaminants_loop(self, sequences, c + 1, best_hit, build)

\* make_contaminants_list has an empty body: an empty library stays empty
find_contaminants_hit(self, sequences, build) ==
    find_contaminants_loop(self, sequences, 0, None, build)

\* sequences given to Contaminant::new
ContaminantSeqs ==
    { <<"A","G","A","T","C","G","G","A","A","G","A","G","C","A","C","A","C","G","T","C","T">>,
      <<"C","T","G","T","C","T","C","T","T","A","T","A","C","A","C","A","T","C","T","G">>,
      <<"A","C","G","T","A","C","G","T","A","C","G","N">> }

\* the lengths of the queries given to Contaminant::find_match
QueryLens == 8..20

\* the substrings of str with a length in QueryLens
Substrings(str) ==
    UNION {{SubSeq(str, i, i + n - 1) : i \in 1..(Len(str) - n + 1)} : n \in QueryLens}

\* queries given to Contaminant::find_match: the substrings of either strand,
\* one of them in lower case, and a sequence that is in neither strand
\* queries longer than 20 bases: either strand, alone and with one more base
\* before or after it
LongQueries(c) ==
    {q \in UNION {{strand, <<"A">> \o strand, strand \o <<"A">>} :
                     strand \in {c.forward, c.reverse}} : Len(q) > 20}

Queries(c) ==
    Substrings(c.forward) \cup Substrings(c.reverse)
       \cup {<<"a","g","a","t","c","g","g","a","a","g">>,
             <<"T","T","T","T","T","T","T","T","T","T">>}
       \cup LongQueries(c)

NewContaminant(sequence) ==
    /\ pc = "start"
    /\ fault = "none"
    /\ LET r == Contaminant_new("contaminant", sequence)
       IN  /\ contaminant' = r.v
           /\ fault' = r.panic
    /\ pc' = "new"
    /\ UNCHANGED <<reportVars, aggVars, pureVars, over, query, hit, gc_len, gc_model, tile_score>>

FindMatch(query_arg, build) ==
    /\ pc = "new"
    /\ fault = "none"
    /\ query' = query_arg
    /\ LET r == find_match(contaminant, query_arg, build)
       IN  /\ hit' = r.v
           /\ fault' = r.panic
    /\ pc' = "done"
    /\ UNCHANGED <<reportVars, aggVars, pureVars, over, contaminant, gc_len, gc_model, tile_score>>

\* str with the bases at the positions in S replaced by other bases
Mutate(str, S) == [i \in 1..Len(str) |-> IF i \in S THEN Complement(str[i]) ELSE str[i]]

MaxOffset == 1

\* the sets of at most two positions of a string of n bases
Mismatches(n) == {{}} \cup {{i, j} : i, j \in 1..n}

\* arguments cb of sub_find_match for a given offset: the forward strand with
\* at most two bases replaced, behind as many bases as the offset
SubQueries(c, off) ==
    {[i \in 1..off |-> "T"] \o Mutate(c.forward, S) : S \in Mismatches(Len(c.forward))}

\* a call of the public sub_find_match with ca the forward strand, as find_match
\* calls it
SubFindMatch(cb, off, direction) ==
    /\ pc = "new"
    /\ fault = "none"
    /\ query' = cb
    /\ sub_offset' = off
    /\ hit' = sub_find_match(contaminant, contaminant.forward, cb, off, direction)
    /\ pc' = "sub"
    /\ UNCHANGED <<aggVars, pureVars, fault, over, contaminant, gc_len, gc_model, tile_score,
                   kmer_content, seq_len_distribution, locals, per_seq_quality_score,
                   duplication_level, finder>>

\* the libraries of a ContaminentFinder: at most two contaminants
Libraries ==
    LET cs == {Contaminant_new("contaminant", sequence).v :
                  sequence \in {t \in ContaminantSeqs :
                                   Contaminant_new("contaminant", t).panic = "none"}}
    IN  {<<>>} \cup {<<c>> : c \in cs} \cup {<<c, d>> : c \in cs, d \in cs}

\* queries given to find_contaminants_hit: those given to find_match for any
\* contaminant of the library
FinderQueries(self) ==
    UNION {Queries(self.contaminants[c]) : c \in 1..Len(self.contaminants)}
       \cup {<<"T","T","T","T","T","T","T","T","T","T">>}

FindContaminantsHit(sequences, build) ==
    /\ pc = "start"
    /\ fault = "none"
    /\ query' = sequences
    /\ LET r == find_contaminants_hit(finder, sequences, build)
       IN  /\ hit' = r.v
           /\ fault' = r.panic
    /\ pc' = "done"
    /\ UNCHANGED <<aggVars, pureVars, over, contaminant, gc_len, gc_model, tile_score,
                   reportVars>>

-----------------------------------------------------------------------------
(* A stand-alone OverRepresentedSeqs.  process_sequence compares              *)
(* unique_seq_count with the accumulator's own field OBSERVATION_CUTOFF only; *)
(* the field is scaled down here so that the freeze is reached.               *)

Long76(last) == [i \in 1..76 |-> IF i = 76 THEN last ELSE "A"]

\* reads given to the accumulator: short ones, and two of 76 bases that differ
\* after the 50th base only
OverReads ==
    {[head |-> <<"r">>, seq |-> sq, qual |-> [i \in 1..Len(sq) |-> 73]] :
        sq \in {<<"A">>, <<"C">>, <<"G">>, Long76("C"), Long76("T")}}

OverProcessSequence(record) ==
    /\ fault = "none"
    /\ over.count < MaxOverReads
    /\ over' = OverRepresentedSeqs_process_sequence(over, record)
    /\ UNCHANGED <<reportVars, aggVars, pureVars, fault, pc, contaminant, query, hit, gc_len, gc_model,
                   tile_score>>

-----------------------------------------------------------------------------
(* A stand-alone GCModel built for one read length *)

NewByLen ==
    /\ pc = "start"
    /\ fault = "none"
    /\ gc_model' = new_by_len(gc_len)
    /\ pc' = "done"
    /\ UNCHANGED <<reportVars, aggVars, pureVars, fault, over, contaminant, query, hit, gc_len, tile_score>>

-----------------------------------------------------------------------------
(* A stand-alone PerTileQualityScore.  The k-th read carries the tile number  *)
(* k in header field 4, in a header of three, five or seven fields; one       *)
(* header has a field 4 that is not a number.                                  *)

TileRead(k) ==
    [head |-> <<"M", "1", "F", "1", ToString(k)>>, seq |-> <<"A">>, qual |-> <<73>>]

TileReads(k) ==
    {[head |-> h, seq |-> <<"A">>, qual |-> <<73>>] :
        h \in {<<"M", "1", "F">>,
               <<"M", "1", "F", "1", "x">>,
               <<"M", "1", "F", "1", ToString(k)>>,
               <<"M", "1", "7", "1", ToString(k), "x", "y">>}}

\* the accumulator after process_sequence on TileRead(1), ..., TileRead(k)
TilesSeen(k) ==
    IF k = 0 THEN PerTileQualityScore_new
    ELSE [PerTileQualityScore_new EXCEPT
            !.total_count = k,
            !.split_position = 4,
            !.current_length = 1,
            !.per_tile_quality_counts =
                [t \in 1..k |-> <<add_value(QualityCount_new, 73).v>>]]

Preloaded == {0} \cup ((MaxPreloaded - PreloadSpan)..MaxPreloaded)

TileProcessSequence(record) ==
    /\ fault = "none"
    /\ calls < MaxTileReads
    /\ LET r == PerTileQualityScore_process_sequence(tile_score, record)
       IN  /\ tile_score' = r.v
           /\ fault' = r.panic
    /\ calls' = calls + 1
    /\ UNCHANGED <<reportVars, fastqc, fed, merged, merges, pureVars, pc, over, contaminant, query, hit,
                   gc_len, gc_model>>

-----------------------------------------------------------------------------
(* A stand-alone KmerContent fed a run of reads, of which it samples every 50th *)

MaxKmerReads == 100

KmerRead(s) == [head |-> <<"some_name">>, seq |-> s, qual |-> [k \in 1..Len(s) |-> 73]]

\* reads that hold the same 7-mer twice, at offset 0, at offset 1 and at offset 2,
\* and a read shorter than a 7-mer
KmerReads ==
    {KmerRead(<<"A", "A", "A", "A", "A", "A", "A", "A">>),
     KmerRead(<<"A", "C", "G", "T", "A", "C", "G">>),
     KmerRead(<<"T", "A", "C", "G", "T", "A", "C", "G">>),
     KmerRead(<<"T", "T", "A", "C", "G", "T", "A", "C", "G">>),
     KmerRead(<<"A", "C", "G">>)}

KmerProcessSequence(record, build) ==
    /\ fault = "none"
    /\ kmer_content.skip_count < MaxKmerReads
    /\ LET r == KmerContent_process_sequence(kmer_content, record, build)
       IN  /\ kmer_content' = r.v
           /\ fault' = r.panic
    /\ UNCHANGED <<aggVars, pureVars, pc, unitVars, seq_len_distribution, locals,
                   per_seq_quality_score, duplication_level, finder, sub_offset>>

-----------------------------------------------------------------------------
(* A stand-alone PerSeqQualityScore; the reads it was given are kept in fed *)
(* under the name ScoreAgg                                                  *)

MaxScoreReads == 3

ScoreAgg == "A"

ScoreRead(q) == [head |-> <<"some_name">>, seq |-> [k \in 1..Len(q) |-> "A"], qual |-> q]

\* reads with the mean qualities 53, 54, 63 and 73, and a read with no quality
ScoreReads ==
    {ScoreRead(<<53>>), ScoreRead(<<53, 55>>), ScoreRead(<<63>>), ScoreRead(<<73>>),
     ScoreRead(<<>>)}

ScoreProcessSequence(record) ==
    /\ pc = "start"
    /\ fault = "none"
    /\ calls < MaxScoreReads
    /\ per_seq_quality_score' = PerSeqQualityScore_process_sequence(per_seq_quality_score, record)
    /\ fed' = [fed EXCEPT ![ScoreAgg] = Append(@, record)]
    /\ calls' = calls + 1
    /\ UNCHANGED <<fastqc, merged, merges, fault, pureVars, pc, unitVars, kmer_content,
                   seq_len_distribution, locals, duplication_level, finder, sub_offset>>

ScoreCalculateDistribution(build) ==
    /\ pc = "start"
    /\ fault = "none"
    /\ LET r == PerSeqQualityScore_calculate_distribution(per_seq_quality_score, build)
       IN  /\ per_seq_quality_score' = r.v
           /\ fault' = r.panic
    /\ pc' = "done"
    /\ UNCHANGED <<aggVars, pureVars, unitVars, kmer_content, seq_len_distribution, locals,
                   duplication_level, finder, sub_offset>>

-----------------------------------------------------------------------------
(* A SeqDuplicationLevel over an OverRepresentedSeqs that has seen two sequences *)

\* the lower ends of the ranges of the slots 10-49, 50-99, ... , 10000+
SlotStarts == {10, 50, 100, 500, 1000, 5000, 10000}

\* duplication levels at and next to the ends of the ranges
DupLevels == {1, 2, 9} \cup UNION {{b - 1, b, b + 1} : b \in SlotStarts}

\* the OverRepresentedSeqs after d1 reads "A" and d2 reads "C", in any order:
\* with fewer than OBSERVATION_CUTOFF sequences it is not frozen, and
\* count_at_unique_limit follows count
OverSeen(d1, d2) ==
    LET seen == {q \in {<<"A">>, <<"C">>} : (IF q = <<"A">> THEN d1 ELSE d2) > 0}
    IN  [OverRepresentedSeqs_new EXCEPT
            !.sequences = [q \in seen |-> IF q = <<"A">> THEN d1 ELSE d2],
            !.count = d1 + d2,
            !.unique_seq_count = Cardinality(seen),
            !.count_at_unique_limit = d1 + d2]

CalculateLevels ==
    /\ pc = "start"
    /\ fault = "none"
    /\ duplication_level' = calculate_levels(duplication_level)
    /\ pc' = "done"
    /\ UNCHANGED <<aggVars, pureVars, fault, unitVars, kmer_content, seq_len_distribution,
                   locals, per_seq_quality_score, finder, sub_offset>>

-----------------------------------------------------------------------------
(* A stand-alone SeqLenDistribution.  calculate_distribution is taken one pass *)
(* of its category loop at a time; the passes are counted up to MaxCategories. *)

MaxLenReads == 2
MaxCategories == 60

\* the lengths of the reads tallied
ReadLengths == {0, 1, 3, 60, 120}

LenRead(n) == [head |-> <<"some_name">>, seq |-> [k \in 1..n |-> "A"],
               qual |-> [k \in 1..n |-> 73]]

LenProcessSequence(record) ==
    /\ pc = "start"
    /\ fault = "none"
    /\ calls < MaxLenReads
    /\ seq_len_distribution' = SeqLenDistribution_process_sequence(seq_len_distribution, record)
    /\ calls' = calls + 1
    /\ UNCHANGED <<fastqc, fed, merged, merges, fault, pureVars, pc, unitVars, kmer_content,
                   locals, per_seq_quality_score, duplication_level, finder, sub_offset>>

EnterCalculateDistribution(build) ==
    /\ pc = "start"
    /\ fault = "none"
    /\ LET r == calculate_distribution_enter(seq_len_distribution, build)
       IN  /\ locals' = r.v
           /\ fault' = r.panic
    /\ pc' = "counting"
    /\ UNCHANGED <<aggVars, pureVars, unitVars, kmer_content, seq_len_distribution,
                   per_seq_quality_score, duplication_level, finder, sub_offset>>

CountCategories ==
    /\ pc = "counting"
    /\ fault = "none"
    /\ IF locals.current_value <= locals.max_len
       THEN /\ locals.categories_counts < MaxCategories
            /\ locals' = count_categories_body(locals)
            /\ UNCHANGED <<seq_len_distribution, pc>>
       ELSE /\ seq_len_distribution' = calculate_distribution_fill(seq_len_distribution, locals)
            /\ pc' = "done"
            /\ UNCHANGED locals
    /\ UNCHANGED <<aggVars, pureVars, fault, unitVars, kmer_content, per_seq_quality_score,
                   duplication_level, finder, sub_offset>>

-----------------------------------------------------------------------------
(* Specifications *)

IdleUnits ==
    /\ over = OverRepresentedSeqs_new
    /\ contaminant = IdleContaminant
    /\ query = <<>>
    /\ hit = None
    /\ gc_len = 0
    /\ gc_model = GCModel_new
    /\ tile_score = PerTileQualityScore_new

\* the local variables of calculate_distribution before it is entered
IdleLocals ==
    [min_len |-> 0, max_len |-> 0, start_and_interval |-> <<0, 0>>,
     categories_counts |-> 0, current_value |-> 0]

IdleReports ==
    /\ kmer_content = KmerContent_new
    /\ seq_len_distribution = SeqLenDistribution_new
    /\ locals = IdleLocals
    /\ per_seq_quality_score = PerSeqQualityScore_new
    /\ duplication_level = SeqDuplicationLevel_new(OverRepresentedSeqs_new)
    /\ finder = ContaminentFinder_new
    /\ sub_offset = 0

IdleAggs == [a \in Aggs |-> FastQC_new]
IdleFed == [a \in Aggs |-> <<>>]

Init ==
    /\ fastqc = IdleAggs
    /\ fed = IdleFed
    /\ merged = IdleFed
    /\ calls = 0
    /\ merges = 0
    /\ fault = "none"
    /\ quality_count = IdleQC
    /\ max_length = 0
    /\ groups = <<>>
    /\ acscii_num = 0
    /\ encoding = IdlePhred
    /\ pc = "start"
    /\ IdleUnits
    /\ IdleReports

Next ==
    \/ \E a \in Aggs, record \in Reads, build \in Builds : ProcessSequence(a, record, build)
    \/ \E a \in Aggs : \E others \in SiblingVecs(a) : Merge(a, others)
    \/ \E a \in Aggs : Finish(a)

Spec == Init /\ [][Next]_vars

InitQC ==
    /\ fastqc = IdleAggs
    /\ fed = IdleFed
    /\ merged = IdleFed
    /\ calls = 0
    /\ merges = 0
    /\ fault = "none"
    /\ quality_count = IdleQC
    /\ max_length = 0
    /\ groups = <<>>
    /\ acscii_num = 0
    /\ encoding = IdlePhred
    /\ pc = "start"
    /\ IdleUnits
    /\ IdleReports

NextQC ==
    \/ \E i \in 1..2, c \in QualChars : AddValue(i, c)
    \/ \E i \in 1..2, j \in 1..2 : AddQualityCount(i, j)

SpecQC == InitQC /\ [][NextQC]_vars

InitBG ==
    /\ fastqc = IdleAggs
    /\ fed = IdleFed
    /\ merged = IdleFed
    /\ calls = 0
    /\ merges = 0
    /\ fault = "none"
    /\ quality_count = IdleQC
    /\ max_length \in 0..MaxBaseLen
    /\ groups = <<>>
    /\ acscii_num = 0
    /\ encoding = IdlePhred
    /\ pc = "start"
    /\ IdleUnits
    /\ IdleReports

NextBG == MakeBaseGroups

SpecBG == InitBG /\ [][NextBG]_vars

InitPhred ==
    /\ fastqc = IdleAggs
    /\ fed = IdleFed
    /\ merged = IdleFed
    /\ calls = 0
    /\ merges = 0
    /\ fault = "none"
    /\ quality_count = IdleQC
    /\ max_length = 0
    /\ groups = <<>>
    /\ acscii_num \in 0..MaxAscii
    /\ encoding = IdlePhred
    /\ pc = "start"
    /\ IdleUnits
    /\ IdleReports

NextPhred == GetFastqEncodingOffset

SpecPhred == InitPhred /\ [][NextPhred]_vars

\* every variable of the aggregators and of the QualityCount, BaseGroup and
\* PhredEncoding specifications at its initial value
IdleCore ==
    /\ fastqc = IdleAggs
    /\ fed = IdleFed
    /\ merged = IdleFed
    /\ calls = 0
    /\ merges = 0
    /\ fault = "none"
    /\ quality_count = IdleQC
    /\ max_length = 0
    /\ groups = <<>>
    /\ acscii_num = 0
    /\ encoding = IdlePhred
    /\ pc = "start"

\* the reads of a run in which tiles can and cannot be read from the headers
RunReads == {Read1, Read2, Read4}

InitRun == IdleCore /\ IdleUnits /\ IdleReports

NextRun ==
    \/ \E a \in Aggs, record \in RunReads, build \in Builds : ProcessSequence(a, record, build)
    \/ \E a \in Aggs : Finish(a)
    \/ \E a \in Aggs, build \in Builds : CalculateDistribution(a, build)

SpecRun == InitRun /\ [][NextRun]_vars

InitOver ==
    /\ IdleCore
    /\ over \in {[OverRepresentedSeqs_new EXCEPT !.OBSERVATION_CUTOFF = c] : c \in 1..MaxCutoff}
    /\ contaminant = IdleContaminant
    /\ query = <<>>
    /\ hit = None
    /\ gc_len = 0
    /\ gc_model = GCModel_new
    /\ tile_score = PerTileQualityScore_new
    /\ IdleReports

NextOver == \E record \in OverReads : OverProcessSequence(record)

SpecOver == InitOver /\ [][NextOver]_vars

InitGC ==
    /\ IdleCore
    /\ over = OverRepresentedSeqs_new
    /\ contaminant = IdleContaminant
    /\ query = <<>>
    /\ hit = None
    /\ gc_len \in 1..MaxGCLen
    /\ gc_model = GCModel_new
    /\ tile_score = PerTileQualityScore_new
    /\ IdleReports

NextGC == NewByLen

SpecGC == InitGC /\ [][NextGC]_vars

InitTile ==
    /\ IdleCore
    /\ over = OverRepresentedSeqs_new
    /\ contaminant = IdleContaminant
    /\ query = <<>>
    /\ hit = None
    /\ gc_len = 0
    /\ gc_model = GCModel_new
    /\ tile_score \in {TilesSeen(k) : k \in Preloaded}
    /\ IdleReports

NextTile == \E record \in TileReads(tile_score.total_count + 1) : TileProcessSequence(record)

SpecTile == InitTile /\ [][NextTile]_vars

InitContaminant == IdleCore /\ IdleUnits /\ IdleReports

NextContaminant ==
    \/ \E sequence \in ContaminantSeqs : NewContaminant(sequence)
    \/ \E query_arg \in Queries(contaminant), build \in Builds : FindMatch(query_arg, build)
    \/ \E off \in 0..MaxOffset, direction \in {FORWARD_TYPE, REVERSE_TYPE} :
          \E cb \in SubQueries(contaminant, off) : SubFindMatch(cb, off, direction)

SpecContaminant == InitContaminant /\ [][NextContaminant]_vars

InitLen == IdleCore /\ IdleUnits /\ IdleReports

NextLen ==
    \/ \E n \in ReadLengths : LenProcessSequence(LenRead(n))
    \/ \E build \in Builds : EnterCalculateDistribution(build)
    \/ CountCategories

SpecLen == InitLen /\ [][NextLen]_vars

InitDup ==
    /\ IdleCore
    /\ IdleUnits
    /\ kmer_content = KmerContent_new
    /\ seq_len_distribution = SeqLenDistribution_new
    /\ locals = IdleLocals
    /\ per_seq_quality_score = PerSeqQualityScore_new
    /\ duplication_level \in
          {SeqDuplicationLevel_new(OverSeen(d1, d2)) :
              d1 \in DupLevels \cup {0}, d2 \in DupLevels \cup {0}}
    /\ finder = ContaminentFinder_new
    /\ sub_offset = 0

NextDup == CalculateLevels

SpecDup == InitDup /\ [][NextDup]_vars

InitScore == IdleCore /\ IdleUnits /\ IdleReports

NextScore ==
    \/ \E record \in ScoreReads : ScoreProcessSequence(record)
    \/ \E build \in Builds : ScoreCalculateDistribution(build)

SpecScore == InitScore /\ [][NextScore]_vars

InitFinder ==
    /\ IdleCore
    /\ IdleUnits
    /\ kmer_content = KmerContent_new
    /\ seq_len_distribution = SeqLenDistribution_new
    /\ locals = IdleLocals
    /\ per_seq_quality_score = PerSeqQualityScore_new
    /\ duplication_level = SeqDuplicationLevel_new(OverRepresentedSeqs_new)
    /\ finder \in {[contaminants |-> l] : l \in Libraries}
    /\ sub_offset = 0

NextFinder ==
    \E sequences \in FinderQueries(finder), build \in Builds :
        FindContaminantsHit(sequences, build)

SpecFinder == InitFinder /\ [][NextFinder]_vars

InitKmer == IdleCore /\ IdleUnits /\ IdleReports

NextKmer == \E record \in KmerReads, build \in Builds : KmerProcessSequence(record, build)

SpecKmer == InitKmer /\ [][NextKmer]_vars

-----------------------------------------------------------------------------
(* Properties.  Helpers over the history variables first. *)

\* every read aggregator a stands for: its own and those merge took over
Constituents(a) == fed[a] \o merged[a]

SumReads(rs, F(_)) == SumSeq([k \in 1..Len(rs) |-> F(rs[k])])

SeqLenOf(r) == Len(r.seq)
QualLenOf(r) == Len(r.qual)
NumA(r) == NumOf(r.seq, "A")
NumC(r) == NumOf(r.seq, "C")
NumG(r) == NumOf(r.seq, "G")
NumT(r) == NumOf(r.seq, "T")
NumN(r) == NumOf(r.seq, "N")
CountedOf(r) == NumA(r) + NumC(r) + NumG(r) + NumT(r) + NumN(r)

\* the longest quality string among rs
MaxQualLen(rs) == MaxOf([k \in 1..Len(rs) |-> Len(rs[k].qual)], 0)

\* how many of rs have quality character c at (1-based) position p
QualAt(rs, p, c) ==
    Cardinality({k \in 1..Len(rs) : Len(rs[k].qual) >= p /\ rs[k].qual[p] = c})

\* the lowest quality character of rs (126, the initial value, when there is none)
LowestOf(rs) == MinOf(Flatten([k \in 1..Len(rs) |-> rs[k].qual]), 126)

OnlyACGTN(rs) ==
    \A k \in 1..Len(rs) : \A i \in 1..Len(rs[k].seq) : rs[k].seq[i] \in {"A", "C", "G", "T", "N"}

Percentiles == {0, 10, 25, 50, 75, 90, 100}

\* C1: after merge, the per-position quality histogram of the merged aggregator
\* is, at every position some constituent covers, the elementwise sum of the
\* constituents' histograms, and merge does not fault whatever the read lengths.
C1_MergeSumsHistograms ==
    /\ fault /= "index out of bounds"
    /\ \A a \in Aggs :
         \A p \in 1..MaxQualLen(Constituents(a)) :
            /\ p <= Len(fastqc[a].per_base_seq_quality.quality_counts)
            /\ \A c \in 0..(ACTUAL_COUNTS_LEN - 1) :
                  fastqc[a].per_base_seq_quality.quality_counts[p].actual_counts[c]
                     = QualAt(Constituents(a), p, c)

\* C2: whatever was merged into an aggregator, in whatever order or grouping,
\* its total_bases, total_reads and A/C/G/T/N counts are the sums of those
\* counters over all its constituents.
C2_MergeSumsCounters ==
    \A a \in Aggs :
       LET rs == Constituents(a)
           b == fastqc[a].basic_stats
       IN  /\ b.total_reads = Len(rs)
           /\ b.total_bases = SumReads(rs, CountedOf)
           /\ b.a_count = SumReads(rs, NumA)
           /\ b.c_count = SumReads(rs, NumC)
           /\ b.g_count = SumReads(rs, NumG)
           /\ b.t_count = SumReads(rs, NumT)
           /\ b.n_count = SumReads(rs, NumN)

\* C3: after a merge that did not fault, the lowest quality character kept in
\* basic_stats is the minimum over all constituents, whichever aggregator was
\* merged into which, and the detected encoding is the one of that minimum.
C3_MergeKeepsLowestChar ==
    fault = "none" =>
       \A a \in Aggs :
          LET lowest == LowestOf(Constituents(a))
          IN  /\ fastqc[a].basic_stats.lowest_char = lowest
              /\ Finished(a) =>
                    fastqc[a].basic_stats.phred = get_fastq_encoding_offset(lowest).v

\* C4: after N calls to process_sequence on an aggregator, every accumulator it
\* owns has been fed all N reads: the read counter of each equals N.
C4_EveryAccumulatorFed ==
    \A a \in Aggs :
       merged[a] = <<>> =>
          LET n == Len(fed[a])
              f == fastqc[a]
          IN  /\ n > 0 => f.per_base_seq_quality.quality_counts[1].total_counts = n
              /\ SumSeq([k \in 1..Len(f.seq_len_distribution.len_counts) |->
                            f.seq_len_distribution.len_counts[k]]) = n
              /\ n > 0 => f.per_base_n_content.n_counts[1]
                            + f.per_base_n_content.not_n_counts[1] = n
              /\ Len(f.per_base_seq_content.g_counts) = MaxOf([k \in 1..n |-> Len(fed[a][k].seq)], 0)
              /\ (n > 0) = (f.per_seq_gc_content.cached_models /= <<>>)
              /\ f.adpater_content.total_count = n
              /\ f.kmer_content.skip_count = n
              /\ f.per_tile_quality_score.ignore_in_report
                    \/ f.per_tile_quality_score.total_count = n
              /\ f.overrepresented_seqs.count = n

\* C5: after N calls to process_sequence on a new aggregator with reads made of
\* A/C/G/T/N bases, total_reads is N and total_bases the sum of the reads' lengths.
C5_TotalsAfterProcessSequence ==
    \A a \in Aggs :
       (merged[a] = <<>> /\ OnlyACGTN(fed[a])) =>
          /\ fastqc[a].basic_stats.total_reads = Len(fed[a])
          /\ fastqc[a].basic_stats.total_bases = SumReads(fed[a], SeqLenOf)

\* an aggregator fed two reads of A/C/G/T/N bases, three bases in all
C5_Witness ==
    \E a \in Aggs :
       /\ merged[a] = <<>> /\ OnlyACGTN(fed[a]) /\ Len(fed[a]) = 2
       /\ SumReads(fed[a], SeqLenOf) = 3
       /\ fastqc[a].basic_stats.total_bases = 3

\* C6: after any sequence of add_value and add_quality_count calls on a
\* QualityCount, total_counts() equals the sum of all entries of actual_counts.
C6_TotalIsSumOfCounts ==
    \A i \in 1..2 :
       total_counts(quality_count[i]) = SumCounts(quality_count[i], NonZero(quality_count[i], 0))

\* a QualityCount that add_quality_count has just added another one to
C6_Witness ==
    /\ pc = "add_quality_count"
    /\ \E i \in 1..2 :
          /\ quality_count[i].total_counts >= 2
          /\ Cardinality(NonZero(quality_count[i], 0)) >= 2

\* the offsets a detected encoding can have
Offsets == {SANGER_ENCODING_OFFSET, ILLUMINA_1_3_ENCODING_OFFSET}

\* C7: for a fixed QualityCount histogram and a fixed offset,
\* get_percentile(offset, p) <= get_percentile(offset, q) whenever
\* 0 <= p <= q <= 100.
C7_PercentileMonotonic ==
    \A i \in 1..2 :
       \A offset \in Offsets :
          \A p \in Percentiles, q \in Percentiles :
             p <= q =>
                QualityCount_get_percentile(quality_count[i], offset, p)
                   <= QualityCount_get_percentile(quality_count[i], offset, q)

\* C8: for every max_length >= 1 the groups of make_base_groups(max_length) are
\* contiguous and increasing, start at 1, end at max_length, have lower <= upper
\* and contain every position of 1..max_length exactly once.
C8_GroupsCoverExactly ==
    (pc = "done" /\ max_length >= 1) =>
       /\ Len(groups) >= 1
       /\ groups[1].lower_count = 1
       /\ groups[Len(groups)].upper_count = max_length
       /\ \A i \in 1..Len(groups) : groups[i].lower_count <= groups[i].upper_count
       /\ \A i \in 1..(Len(groups) - 1) :
             groups[i + 1].lower_count = groups[i].upper_count + 1
       /\ \A p \in 1..max_length :
             Cardinality({i \in 1..Len(groups) :
                             groups[i].lower_count <= p /\ p <= groups[i].upper_count}) = 1

\* groups made with an interval above 10: the tenth bin runs to the interval boundary
C8_Witness ==
    /\ pc = "done"
    /\ max_length > 75
    /\ Len(groups) > 10
    /\ groups[10].lower_count = 10
    /\ groups[10].upper_count = 19
    /\ groups[11].lower_count = 20

IntervalCandidates == {b * m : b \in {2, 5, 10}, m \in {1, 10, 100, 1000, 10000, 100000, 1000000}}

\* C9: make_base_groups(n) returns exactly n singleton groups named "1".."n"
\* when n <= 75; when n > 75 it uses an interval >= 2 from {2,5,10} x 10^k, keeps
\* positions 1..9 as individual bins, and returns fewer than 75 groups.
C9_GroupCountBelow75 ==
    pc = "done" =>
       /\ max_length <= 75 =>
             /\ Len(groups) = max_length
             /\ \A i \in 1..Len(groups) :
                   groups[i] = [name |-> ToString(i), lower_count |-> i, upper_count |-> i]
       /\ max_length > 75 =>
             /\ get_linear_interval(max_length) >= 2
             /\ get_linear_interval(max_length) \in IntervalCandidates
             /\ \A i \in 1..9 :
                   groups[i] = [name |-> ToString(i), lower_count |-> i, upper_count |-> i]
             /\ Len(groups) < 75

\* C10: from the minimum quality character c, 33 <= c <= 63 gives
\* Sanger / Illumina 1.9 with offset 32; 64 <= c <= 126 gives offset 64, named
\* Illumina 1.3 exactly when c is 65 and Illumina 1.5 otherwise.
C10_EncodingFromLowestChar ==
    pc = "done" =>
       /\ (33 <= acscii_num /\ acscii_num <= 63) =>
             /\ fault = "none"
             /\ encoding = [name |-> "Sanger / Illumina 1.9", offset |-> 32]
       /\ (64 <= acscii_num /\ acscii_num <= 126) =>
             /\ fault = "none"
             /\ encoding.offset = 64
             /\ (encoding.name = "Illumina 1.3") = (acscii_num = 65)
             /\ acscii_num /= 65 => encoding.name = "Illumina 1.5"

\* the character 'A' has been classified
C10_Witness ==
    /\ pc = "done"
    /\ acscii_num = 65
    /\ encoding = [name |-> "Illumina 1.3", offset |-> 64]

\* C11: an invalid input encoding (minimum quality character below 33 or
\* above 126) is reported as a recoverable error value; it never aborts the
\* process.
C11_InvalidEncodingIsRecoverable ==
    (pc = "done" /\ (acscii_num < 33 \/ acscii_num > 126)) => fault = "none"

\* C15: for every query of length 8 to 20 that is an exact substring of the
\* contaminant's forward or reverse-complement strand, find_match returns a hit
\* with percent_id 100 and length equal to the query length.
C15_ExactSubstringHit ==
    (/\ pc = "done"
     /\ Len(query) \in 8..20
     /\ Contains(contaminant.forward, query) \/ Contains(contaminant.reverse, query))
    => /\ fault = "none"
       /\ hit.some
       /\ hit.v.percent_id = 100
       /\ hit.v.length = Len(query)

\* C12: for an aggregator that has processed zero reads, finish() and the
\* finalization pass of the per-sequence quality scores complete without fault.
C12_EmptyFinalizationDoesNotFault ==
    [][\A a \in Aggs :
          (/\ fed[a] = <<>>
           /\ merged[a] = <<>>
           /\ Finish(a) \/ \E build \in Builds : CalculateDistribution(a, build))
          => fault' = "none"]_vars

\* the header of record gives no tile number: fewer than five fields, or a
\* fifth field that is not a number
NoTile(record) == Len(record.head) < 5 \/ ParseUsize(record.head[5]) = -1

\* C19: a read whose header cannot yield a tile number only disables the
\* per-tile metric: process_sequence does not abort, and BasicStats has counted
\* the read.
C19_BadTileOnlyDisablesTileMetric ==
    [][\A a \in Aggs, record \in RunReads, build \in Builds :
          (NoTile(record) /\ ProcessSequence(a, record, build))
          => /\ fault' = "none"
             /\ fastqc'[a].basic_stats.total_reads = fastqc[a].basic_stats.total_reads + 1
             /\ fastqc'[a].per_tile_quality_score.ignore_in_report]_vars

\* the key under which OverRepresentedSeqs counts record: the first 50 bases of
\* a read longer than 75, the whole read otherwise
DupKey(record) == IF Len(record.seq) > 75 THEN SubSeq(record.seq, 1, 50) ELSE record.seq

\* the reads the table of over accounts for
TableTotal ==
    SumSeq([i \in 1..3 |->
              LET k == IF i = 1 THEN <<"A">> ELSE IF i = 2 THEN <<"C">> ELSE <<"G">>
              IN  IF k \in DOMAIN over.sequences THEN over.sequences[k] ELSE 0])
       + (IF SubSeq(Long76("C"), 1, 50) \in DOMAIN over.sequences
          THEN over.sequences[SubSeq(Long76("C"), 1, 50)] ELSE 0)

\* C13: unique_seq_count equals the number of distinct keys of the sequence
\* table and never exceeds the observation cutoff; once the cutoff is reached
\* the accumulator is frozen and no new distinct sequence is admitted.
C13_UniqueCountBoundedByCutoff ==
    /\ [](/\ over.unique_seq_count = Cardinality(DOMAIN over.sequences)
          /\ over.unique_seq_count <= over.OBSERVATION_CUTOFF
          /\ over.frozen = (over.unique_seq_count = over.OBSERVATION_CUTOFF))
    /\ [][over.frozen =>
             /\ over'.frozen
             /\ DOMAIN over'.sequences = DOMAIN over.sequences
             /\ over'.unique_seq_count = over.OBSERVATION_CUTOFF]_vars

\* a frozen accumulator has been given a sequence it did not know and has not
\* admitted it
C13_Witness ==
    /\ over.frozen
    /\ over.unique_seq_count = over.OBSERVATION_CUTOFF
    /\ over.count > TableTotal

\* C14: count increases by one on every read, before and after the freeze;
\* count_at_unique_limit equals count after every read while not frozen, and
\* after the freeze it stays at the value count had when the cutoff-th distinct
\* sequence was admitted, while known sequences keep being counted.
C14_CountAtUniqueLimit ==
    [][\A record \in OverReads :
          OverProcessSequence(record) =>
             /\ over'.count = over.count + 1
             /\ ~over'.frozen => over'.count_at_unique_limit = over'.count
             /\ (~over.frozen /\ over'.frozen) => over'.count_at_unique_limit = over'.count
             /\ over.frozen => over'.count_at_unique_limit = over.count_at_unique_limit
             /\ DupKey(record) \in DOMAIN over.sequences =>
                   over'.sequences[DupKey(record)] = over.sequences[DupKey(record)] + 1]_vars

\* after the freeze a known sequence has been counted again and the recorded
\* count has stayed behind
C14_Witness ==
    /\ over.frozen
    /\ over.count_at_unique_limit < over.count
    /\ TableTotal > over.count_at_unique_limit

RECURSIVE SumIncrements(_, _, _)
\* the sum of the increments of model_values[lo..hi]
SumIncrements(model_values, lo, hi) ==
    IF lo > hi THEN Zero
    ELSE IF lo = hi THEN model_values[lo].increment
    ELSE LET mid == (lo + hi) \div 2
         IN  RatAdd(SumIncrements(model_values, lo, mid),
                    SumIncrements(model_values, mid + 1, hi))

RECURSIVE SumModels(_, _, _)
\* the sum of the increments of models[lo..hi], one list per GC count
SumModels(models, lo, hi) ==
    IF lo > hi THEN Zero
    ELSE IF lo = hi THEN SumIncrements(models[lo], 1, Len(models[lo]))
    ELSE LET mid == (lo + hi) \div 2
         IN  RatAdd(SumModels(models, lo, mid), SumModels(models, mid + 1, hi))

ModelWeight(model) == SumModels(model.models, 1, Len(model.models))

\* C16: for every read length L >= 1 the weights of new_by_len(L), summed over
\* all GC counts 0..L and all the percentage buckets each of them claims, add
\* up to L + 1.
C16_ModelConservesWeight ==
    (pc = "done" /\ gc_model.read_length = gc_len /\ gc_len >= 1)
        => ModelWeight(gc_model) = Rat(gc_len + 1, 1)

\* C17: PerTileQualityScore takes the tile from the ':'-separated header
\* fields: field 2 when the header has at least 7 fields, otherwise field 4
\* when it has at least 5 fields, otherwise per-tile tracking is disabled.
C17_TileFieldByHeaderLength ==
    [][\A record \in TileReads(tile_score.total_count + 1) :
          (tile_score.split_position < 0 /\ TileProcessSequence(record) /\ fault' = "none")
          => IF Len(record.head) >= 7
             THEN /\ tile_score'.split_position = 2
                  /\ DOMAIN tile_score'.per_tile_quality_counts = {ParseUsize(record.head[3])}
             ELSE IF Len(record.head) >= 5
             THEN /\ tile_score'.split_position = 4
                  /\ DOMAIN tile_score'.per_tile_quality_counts = {ParseUsize(record.head[5])}
             ELSE /\ tile_score'.ignore_in_report
                  /\ tile_score'.per_tile_quality_counts = <<>>]_vars

\* C18: the number of distinct tiles PerTileQualityScore tracks never exceeds
\* 1000; when more than 1000 distinct tiles have appeared the table is
\* cleared and ignore_in_report is set.
C18_AtMost1000Tiles ==
    Cardinality(DOMAIN tile_score.per_tile_quality_counts) <= 1000

\* the number of G and C among the bases of seq
GCCountOf(seq) == Cardinality({i \in 1..Len(seq) : seq[i] \in {"G", "C"}})

\* what a read adds to percentage bucket p: the increment its GC model holds for
\* p at the read's GC count, for the model of its truncated length
ContributionAt(record, p) ==
    LET seq == truncate_sequence(record)
        values == get_model_values(new_by_len(Len(seq)), GCCountOf(seq))
        first == values[1].percentage
    IN  IF Len(seq) = 0 THEN Zero
        ELSE IF first <= p /\ p < first + Len(values)
        THEN values[p - first + 1].increment
        ELSE Zero

RECURSIVE SumContributions(_, _, _)
\* what the first k reads of rs add to percentage bucket p
SumContributions(rs, k, p) ==
    IF k = 0 THEN Zero
    ELSE RatAdd(SumContributions(rs, k - 1, p), ContributionAt(rs[k], p))

GCContributions(rs) == [b \in 1..101 |-> SumContributions(rs, Len(rs), b - 1)]

\* C20: every non-empty read given to PerSeqGCContent.process_sequence adds the
\* increments of the GC model of its length and GC count to the distribution,
\* whatever lengths were processed before: after N reads the distribution holds
\* the contributions of all N.
C20_EveryReadContributesGC ==
    \A a \in Aggs :
        (fault = "none" /\ merged[a] = <<>>)
        => fastqc[a].per_seq_gc_content.y_gc_distribution
              = GCContributions(fed[a])

\* the length of the shortest and of the longest read of rs
ShortestOf(rs) == MinOf([k \in 1..Len(rs) |-> Len(rs[k].seq)], Len(rs[1].seq))
LongestOf(rs) == MaxOf([k \in 1..Len(rs) |-> Len(rs[k].seq)], 0)

\* C28: after at least one read has been processed, and after any merge,
\* basic_stats.min_length is the length of the shortest read seen and
\* basic_stats.max_length the length of the longest, so min_length <= max_length.
C28_MinMaxReadLength ==
    \A a \in Aggs :
        (fault = "none" /\ fed[a] /= <<>>)
        => /\ fastqc[a].basic_stats.min_length = ShortestOf(Constituents(a))
           /\ fastqc[a].basic_stats.max_length = LongestOf(Constituents(a))
           /\ fastqc[a].basic_stats.min_length <= fastqc[a].basic_stats.max_length

\* C30: in every state reached by process_sequence and merge calls,
\* basic_stats.total_bases = a_count + c_count + g_count + t_count + n_count;
\* a character other than uppercase A, C, G, T, N is counted on neither side.
C30_TotalBasesIsSumOfCounts ==
    \A a \in Aggs :
        LET b == fastqc[a].basic_stats
        IN  b.total_bases = b.a_count + b.c_count + b.g_count + b.t_count + b.n_count

\* an aggregator that merged a sibling, holding an N and fewer counted bases
\* than its reads have characters
C30_Witness ==
    \E a \in Aggs :
        /\ merged[a] /= <<>> /\ fed[a] /= <<>>
        /\ fastqc[a].basic_stats.n_count > 0
        /\ fastqc[a].basic_stats.total_bases > 0
        /\ fastqc[a].basic_stats.total_bases < SumReads(Constituents(a), SeqLenOf)

\* C29: once PerTileQualityScore is disabled (ignore_in_report set) it stays
\* disabled: no later process_sequence call clears the flag or changes the
\* table, current_length, total_count or split_position.
C29_DisabledTileStaysDisabled ==
    [][\A record \in TileReads(tile_score.total_count + 1) :
          (tile_score.ignore_in_report /\ TileProcessSequence(record))
          => /\ tile_score' = tile_score
             /\ fault' = "none"]_vars

\* a header of three fields disabled a new accumulator at its first read, and
\* two more reads were given to it since
C29_Witness ==
    /\ tile_score.ignore_in_report
    /\ tile_score.total_count = 1
    /\ tile_score.split_position = -1
    /\ calls = 3
    /\ fault = "none"

\* C27: every Kmer record kept by KmerContent has a count equal to the sum of its
\* positions vector
C27_KmerCountIsSumOfPositions ==
    \A k \in DOMAIN kmer_content.kmers :
        kmer_content.kmers[k].count = SumSeq(kmer_content.kmers[k].positions)

\* C22: every hit sub_find_match produces is longer than 20 and has at most one
\* mismatch, so its percent_id is at least (length-1)*100/length and at most 100
C22_HitHasAtMostOneMismatch ==
    (pc = "sub" /\ hit.some) =>
        /\ hit.v.length > 20
        /\ hit.v.percent_id >= ((hit.v.length - 1) * 100) \div hit.v.length
        /\ hit.v.percent_id <= 100

\* str and strand hold a common run of more than 20 bases
SharesRun(str, strand) ==
    \E i \in 1..(Len(str) - 20), j \in 1..(Len(strand) - 20) :
        SubSeq(str, i, i + 20) = SubSeq(strand, j, j + 20)

\* C23: find_match, given a query longer than 20 bases that shares an exact run
\* of more than 20 bases with either strand, returns a hit and does not fault
C23_LongQuerySharingRunIsHit ==
    (/\ pc = "done"
     /\ Len(query) > 20
     /\ \/ SharesRun(to_uppercase(query), contaminant.forward)
        \/ SharesRun(to_uppercase(query), contaminant.reverse))
        => (fault = "none" /\ hit.some)

\* the hits the contaminants of the library give for the query, one by one
LibraryHits ==
    {h \in {find_match(finder.contaminants[c], query, "release").v :
               c \in 1..Len(finder.contaminants)} : h.some}

MeanQuality(r) == SumSeq(r.qual) \div Len(r.qual)

\* the reads given to the stand-alone PerSeqQualityScore that have a quality string
Scored == SelectSeq(fed[ScoreAgg], LAMBDA r : r.qual /= <<>>)

\* the number of reads in rs whose mean quality is m
WithMean(rs, m) == Cardinality({k \in 1..Len(rs) : MeanQuality(rs[k]) = m})

\* C26: after calculate_distribution the histogram has one entry for every integer
\* mean from the lowest to the highest observed, each the number of reads with that
\* mean, and max_counts / most_frequent_score are the highest entry and its score
C26_DenseHistogramAndMode ==
    (pc = "done" /\ fault = "none" /\ Scored /= <<>>) =>
        LET p == per_seq_quality_score
            means == {MeanQuality(Scored[k]) : k \in 1..Len(Scored)}
            lowest == CHOOSE m \in means : \A n \in means : m <= n
            highest == CHOOSE m \in means : \A n \in means : n <= m
        IN  /\ Len(p.y_category_count) = highest - lowest + 1
            /\ \A i \in 1..Len(p.y_category_count) :
                  p.y_category_count[i] = WithMean(Scored, lowest + i - 1)
            /\ SumSeq(p.y_category_count) = Len(Scored)
            /\ \A i \in 1..Len(p.y_category_count) : p.y_category_count[i] <= p.max_counts
            /\ \E i \in 1..Len(p.y_category_count) :
                  /\ p.y_category_count[i] = p.max_counts
                  /\ p.x_category_quality[i] = p.most_frequent_score

\* the slot (counted from 0) whose range 1, ..., 9, 10-49, 50-99, 100-499, 500-999,
\* 1000-4999, 5000-9999, 10000+ holds the duplication level d
SlotOfRange(d) ==
    IF d < 10 THEN d - 1
    ELSE 9 + Cardinality({b \in SlotStarts : b <= d}) - 1

\* C25: after calculate_levels the share of each slot is the share of the distinct
\* sequences whose duplication level lies in the slot's range
C25_LevelFallsInSlotOfItsRange ==
    (pc = "done" /\ duplication_level.overrepresented_module.sequences /= <<>>) =>
        LET m == duplication_level.overrepresented_module
        IN  \A i \in 1..16 :
               duplication_level.dedup_percentages[i] =
                  Rat(100 * Cardinality({q \in DOMAIN m.sequences :
                                            SlotOfRange(m.sequences[q]) = i - 1}),
                      Cardinality(DOMAIN m.sequences))

\* C21: calculate_distribution counts no more categories than the interval search
\* allows: CATEGORY_LIMIT intervals across the range and one at either end
C21_CategoriesWithinLimit == locals.categories_counts <= CATEGORY_LIMIT + 2

====
